---- MODULE Spec2Model ----
(***************************************************************************)
(* Engineering-reference case matcher of the proposal backend.             *)
(*                                                                         *)
(*   v2: app/agents/tools/intelligent_case_filter_v2.py                    *)
(*       (SemanticCaseMatcher, load_knowledge_base,                        *)
(*        get_engineering_references)                                      *)
(*   v1: app/agents/tools/intelligent_case_filter.py                       *)
(*       (keyword_score, two_pass_filter, generate_why_relevant,           *)
(*        get_engineering_references)                                      *)
(*                                                                         *)
(* Conventions                                                             *)
(*   - Python str values are TLA+ strings; "x in text" is Contains.        *)
(*   - Python None is the string "None" for optional strings and NoFlow    *)
(*     for the optional flow.                                              *)
(*   - Flows are exact decimals counted in hundredths of a m3/day          *)
(*     (332.0 is 33200).                                                   *)
(*   - Sub-scores are exact rationals counted in twelfths (8.0 is 96);     *)
(*     total_score, which multiplies by the weights 1.5 / 1.0 / 0.5, is    *)
(*     counted in twenty-fourths.  Every input of the model keeps the      *)
(*     Python floats exact (dyadic values), so ties and signs agree.       *)
(*   - Characters the source spells outside ASCII are written with ASCII   *)
(*     stand-ins:  "~" is U+2013 (en dash); "{", "|", "}" are the three    *)
(*     characters U+201A, U+00C4, U+00EC that the flow regexes of both     *)
(*     files contain in their character classes; "#", "$" are U+00AC,      *)
(*     U+2265, the two characters the source spells the cube of "m3" with, *)
(*     and "^" is U+00B3 (superscript three).                              *)
(***************************************************************************)
EXTENDS Integers, Sequences, FiniteSets, TLC

(***************************************************************************)
(* Strings                                                                 *)
(***************************************************************************)

\* s[i] of a Python str (1-based here)
CharAt(s, i) == SubSeq(s, i, i)

\* Python: needle in hay
Contains(needle, hay) ==
    \E i \in 1..(Len(hay) - Len(needle) + 1) :
        SubSeq(hay, i, i + Len(needle) - 1) = needle

UpperLetters == "ABCDEFGHIJKLMNOPQRSTUVWXYZ"
LowerLetters == "abcdefghijklmnopqrstuvwxyz"

LowerChar(c) ==
    IF \E i \in 1..Len(UpperLetters) : CharAt(UpperLetters, i) = c
    THEN LET i == CHOOSE j \in 1..Len(UpperLetters) : CharAt(UpperLetters, j) = c
         IN  CharAt(LowerLetters, i)
    ELSE c

\* Python: s.lower(), character by character (the string is halved so that
\* the recursion stays shallow on long texts)
RECURSIVE Lower(_)
Lower(s) ==
    IF s = "" THEN ""
    ELSE IF Len(s) = 1 THEN LowerChar(s)
    ELSE Lower(SubSeq(s, 1, Len(s) \div 2)) \o Lower(SubSeq(s, Len(s) \div 2 + 1, Len(s)))

\* Python: s.replace("_", " ")
RECURSIVE ReplaceUnderscore(_)
ReplaceUnderscore(s) ==
    IF s = "" THEN ""
    ELSE (IF CharAt(s, 1) = "_" THEN " " ELSE CharAt(s, 1))
         \o ReplaceUnderscore(SubSeq(s, 2, Len(s)))

\* Python: s.split() -- words separated by runs of blanks
RECURSIVE SplitFrom(_, _, _)
SplitFrom(s, i, word) ==
    IF i > Len(s)
    THEN IF word = "" THEN <<>> ELSE <<word>>
    ELSE IF CharAt(s, i) = " "
         THEN (IF word = "" THEN <<>> ELSE <<word>>) \o SplitFrom(s, i + 1, "")
         ELSE SplitFrom(s, i + 1, word \o CharAt(s, i))

Split(s) == SplitFrom(s, 1, "")

\* Python: sep.join(parts)
RECURSIVE Join(_, _)
Join(sep, parts) ==
    IF parts = <<>> THEN ""
    ELSE IF Len(parts) = 1 THEN parts[1]
    ELSE parts[1] \o sep \o Join(sep, Tail(parts))

\* Python: str(list_of_str), e.g. ['food', 'service']
RECURSIVE Quoted(_)
Quoted(parts) ==
    IF parts = <<>> THEN <<>> ELSE <<"'" \o parts[1] \o "'">> \o Quoted(Tail(parts))

ListRepr(parts) == "[" \o Join(", ", Quoted(parts)) \o "]"

\* lst[:n]
SliceTo(lst, n) ==
    IF n >= 0
    THEN SubSeq(lst, 1, IF n < Len(lst) THEN n ELSE Len(lst))
    ELSE SubSeq(lst, 1, IF Len(lst) + n > 0 THEN Len(lst) + n ELSE 0)

\* first index i with terms[i] in text, 0 when there is none
\* (for term in terms: if term in text: ...; break)
FirstContained(terms, text) ==
    IF \E i \in 1..Len(terms) : Contains(terms[i], text)
    THEN CHOOSE i \in 1..Len(terms) :
            /\ Contains(terms[i], text)
            /\ \A j \in 1..(i - 1) : ~Contains(terms[j], text)
    ELSE 0

\* dict.get(key, []) on a table written as a record
GetList(table, key) == IF key \in DOMAIN table THEN table[key] ELSE <<>>

(***************************************************************************)
(* Constants & configuration (v2)                                          *)
(***************************************************************************)

CONTAMINANT_TOKENS ==
    [ organics     |-> <<"bod", "cod", "fog">>,
      suspended    |-> <<"tss">>,
      nutrients    |-> <<"nitrogen", "phosphorus", "ammonia", "tn", "tp">>,
      metals       |-> <<"metal", "chromium", "nickel", "copper", "zinc", "lead">>,
      hydrocarbons |-> <<"oil", "hydrocarbon", "petroleum">>,
      ph           |-> <<"ph">>,
      color        |-> <<"color", "dyes">> ]

\* iteration order of CONTAMINANT_TOKENS.items() (dict insertion order)
CONTAMINANT_CATEGORIES ==
    <<"organics", "suspended", "nutrients", "metals", "hydrocarbons", "ph", "color">>

SECTOR_SYNONYMS ==
    [ commercial  |-> <<"business", "retail", "service", "hospitality", "office", "building">>,
      industrial  |-> <<"manufacturing", "production", "processing", "factory", "plant", "facility">>,
      municipal   |-> <<"government", "public", "utility", "city", "sewage", "wastewater">>,
      residential |-> <<"domestic", "home", "housing", "apartment", "family", "dwelling">> ]

SUBSECTOR_SYNONYMS ==
    [ restaurant |-> <<"dining", "food service", "kitchen", "culinary", "catering", "cafe", "eatery">>,
      hotel |-> <<"hospitality", "lodging", "accommodation", "guest", "resort", "motel">>,
      shopping_mall |-> <<"retail", "mall", "shopping center", "commercial center">>,
      office_building |-> <<"office", "commercial building", "corporate", "business center">>,
      food_service |-> <<"food", "beverage", "catering", "kitchen", "dining", "culinary">>,
      food_processing |-> <<"food manufacturing", "food production", "food industry", "processing plant">>,
      beverage_bottling |-> <<"bottling", "drinks", "beverage production", "bottling plant">>,
      textile_manufacturing |-> <<"textile", "fabric", "garment", "dyeing", "textile industry">>,
      pharmaceutical_manufacturing |-> <<"pharmaceutical", "pharma", "medicine", "drug production">>,
      chemical_processing |-> <<"chemical", "chemical manufacturing", "chemical production">>,
      government_building |-> <<"government", "public building", "municipal building">>,
      water_utility |-> <<"utility", "water treatment", "water supply", "municipal water">>,
      single_home |-> <<"home", "house", "single family", "residential", "domestic">>,
      multi_family |-> <<"apartment", "multi-family", "residential complex", "housing">> ]

\* WEIGHTS, doubled: semantic 1.5, contaminant 1.0, flow 0.5
WEIGHTS == [semantic |-> 3, contaminant |-> 2, flow |-> 1]

\* a float sub-score, in twelfths
Pts(x) == 12 * x

(***************************************************************************)
(* SemanticCaseMatcher.calculate_semantic_score                            *)
(***************************************************************************)

\* " ".join([application_type, description]).lower()
SemanticCaseText(case) == Lower(case.application_type \o " " \o case.description)

\* step 1: sector matching with synonyms -> [score, explanations]
SectorPart(user_sector, case_text) ==
    IF user_sector = "" THEN [score |-> 0, explanations |-> <<>>]
    ELSE LET sector_terms == <<user_sector>> \o GetList(SECTOR_SYNONYMS, user_sector)
             i == FirstContained(sector_terms, case_text)
         IN  IF i = 0 THEN [score |-> 0, explanations |-> <<>>]
             ELSE [score |-> Pts(8),
                   explanations |-> <<"Sector match: '" \o sector_terms[i] \o "' in case">>]

\* [word for word in subsector_words if word in case_text]
RECURSIVE WordsContained(_, _)
WordsContained(words, text) ==
    IF words = <<>> THEN <<>>
    ELSE (IF Contains(words[1], text) THEN <<words[1]>> ELSE <<>>)
         \o WordsContained(Tail(words), text)

\* variant: a partial match counts only when every word of the subsector
\* is in the text
PartialPart_AllWords(user_subsector, case_text) ==
    LET subsector_words == Split(ReplaceUnderscore(user_subsector))
        matched_words   == WordsContained(subsector_words, case_text)
    IN  IF Len(matched_words) < Len(subsector_words) \/ matched_words = <<>>
        THEN [score |-> 0, explanations |-> <<>>]
        ELSE [score |-> Pts(5),
              explanations |-> <<"Partial match: " \o ListRepr(matched_words)>>]

\* strategy 3: 5.0 * (len(matched_words) / len(subsector_words))
PartialPart(user_subsector, case_text) ==
    LET subsector_words == Split(ReplaceUnderscore(user_subsector))
        matched_words   == WordsContained(subsector_words, case_text)
    IN  IF matched_words = <<>> THEN [score |-> 0, explanations |-> <<>>]
        ELSE [score |-> (Pts(5) * Len(matched_words)) \div Len(subsector_words),
              explanations |-> <<"Partial match: " \o ListRepr(matched_words)>>]

\* variant: the synonyms of the subsector are never looked at
SynonymPart_PartialOnly(user_subsector, case_text) == PartialPart(user_subsector, case_text)

\* strategy 2, falling through to strategy 3
SynonymPart(user_subsector, case_text) ==
    LET subsector_terms == GetList(SUBSECTOR_SYNONYMS, user_subsector)
        i == FirstContained(subsector_terms, case_text)
    IN  IF i # 0
        THEN [score |-> Pts(12),
              explanations |-> <<"Synonym match: '" \o subsector_terms[i] \o "'">>]
        ELSE PartialPart(user_subsector, case_text)

\* variant: a direct match does not stop the synonym and partial strategies
SubsectorPart_Stacking(user_subsector, case_text) ==
    IF user_subsector = "" THEN [score |-> 0, explanations |-> <<>>]
    ELSE LET direct == Contains(ReplaceUnderscore(user_subsector), case_text)
             rest   == SynonymPart(user_subsector, case_text)
         IN  [score |-> (IF direct THEN Pts(15) ELSE 0) + rest.score,
              explanations |->
                 (IF direct
                  THEN <<"Direct subsector match: '" \o user_subsector \o "'">>
                  ELSE <<>>) \o rest.explanations]

\* step 2: subsector matching, strategy 1 first
SubsectorPart(user_subsector, case_text) ==
    IF user_subsector = "" THEN [score |-> 0, explanations |-> <<>>]
    ELSE IF Contains(ReplaceUnderscore(user_subsector), case_text)
         THEN [score |-> Pts(15),
               explanations |-> <<"Direct subsector match: '" \o user_subsector \o "'">>]
         ELSE SynonymPart(user_subsector, case_text)

calculate_semantic_score(user_sector, user_subsector, case) ==
    LET case_text == SemanticCaseText(case)
        sec == SectorPart(user_sector, case_text)
        sub == SubsectorPart(user_subsector, case_text)
    IN  [score |-> sec.score + sub.score,
         explanations |-> sec.explanations \o sub.explanations]

(***************************************************************************)
(* SemanticCaseMatcher.calculate_contaminant_score                         *)
(***************************************************************************)

\* Position of a category name in alphabetical order (what sorted() uses).
CategoryRank(category) ==
    CASE category = "color"        -> 0
      [] category = "hydrocarbons" -> 1
      [] category = "metals"       -> 2
      [] category = "nutrients"    -> 3
      [] category = "organics"     -> 4
      [] category = "ph"           -> 5
      [] category = "suspended"    -> 6

\* Place of a str in the iteration order of a set of str.  It depends on the
\* interpreter's per-process string-hash seed; seed * rank mod 7 is a
\* different permutation of the seven categories for each seed in 1..6.
HashPlace(seed, category) == (seed * CategoryRank(category)) % 7

\* the sequence of the elements of S in increasing order of key[x]
RECURSIVE SeqByKey(_, _)
SeqByKey(S, key) ==
    IF S = {} THEN <<>>
    ELSE LET x == CHOOSE y \in S : \A z \in S : key[y] <= key[z]
         IN  <<x>> \o SeqByKey(S \ {x}, key)

\* for category in user_contaminants  (a Python set)
SetIteration(seed, S) == SeqByKey(S, [c \in S |-> HashPlace(seed, c)])

\* tuple(sorted(contaminants))
SortedTuple(S) == SeqByKey(S, [c \in S |-> CategoryRank(c)])

\* set(contaminants_tuple)
RECURSIVE ToSet(_)
ToSet(t) == IF t = <<>> THEN {} ELSE {t[1]} \cup ToSet(Tail(t))

\* variant: a category is taken once for each of its tokens in the text
RECURSIVE MatchedCategories_PerToken(_, _, _)
MatchedCategories_PerToken(walk, tokens_of, text) ==
    IF walk = <<>> THEN <<>>
    ELSE [i \in 1..Len(WordsContained(GetList(tokens_of, walk[1]), text)) |-> walk[1]]
         \o MatchedCategories_PerToken(Tail(walk), tokens_of, text)

\* the categories of the walk that have a token in the text, in walk order
RECURSIVE MatchedCategories(_, _, _)
MatchedCategories(walk, tokens_of, text) ==
    IF walk = <<>> THEN <<>>
    ELSE (IF FirstContained(GetList(tokens_of, walk[1]), text) # 0
          THEN <<walk[1]>> ELSE <<>>)
         \o MatchedCategories(Tail(walk), tokens_of, text)

calculate_contaminant_score(seed, user_contaminants, case) ==
    LET case_characteristics == Lower(case.influent_characteristics)
        matched_categories ==
            MatchedCategories(SetIteration(seed, user_contaminants),
                              CONTAMINANT_TOKENS, case_characteristics)
    IN  [score |-> Pts(5) * Len(matched_categories),
         matched_categories |-> matched_categories]

(***************************************************************************)
(* SemanticCaseMatcher._parse_flow_range / v1 parse_flow_range             *)
(***************************************************************************)

Digits == "0123456789"

IsDigit(c) == \E i \in 1..Len(Digits) : CharAt(Digits, i) = c

DigitValue(c) == (CHOOSE i \in 1..Len(Digits) : CharAt(Digits, i) = c) - 1

\* the characters the class [^\d\-{|}.{|},] of re.sub keeps
FlowKeptChars == "-{|}.,"

\* the separators [-{|}] of the range pattern
FlowRangeSeparators == "-{|}"

InChars(c, chars) == \E i \in 1..Len(chars) : CharAt(chars, i) = c

\* re.sub(r"[^\d\-{|}.{|},]", " ", flow_text)
RECURSIVE FlowClean(_)
FlowClean(s) ==
    IF s = "" THEN ""
    ELSE (IF IsDigit(CharAt(s, 1)) \/ InChars(CharAt(s, 1), FlowKeptChars)
          THEN CharAt(s, 1) ELSE " ")
         \o FlowClean(SubSeq(s, 2, Len(s)))

\* end of the longest run of digits of s that starts at i (i - 1: no digit at i)
RECURSIVE DigitsEnd(_, _)
DigitsEnd(s, i) ==
    IF i <= Len(s) /\ IsDigit(CharAt(s, i)) THEN DigitsEnd(s, i + 1) ELSE i - 1

\* first position from i on that is not a blank  (\s*)
RECURSIVE SkipBlanks(_, _)
SkipBlanks(s, i) ==
    IF i <= Len(s) /\ CharAt(s, i) = " " THEN SkipBlanks(s, i + 1) ELSE i

\* end of \d+(?:\.\d+)? matched greedily at a digit at i
NumberEnd(s, i) ==
    LET Fraction(e) ==
            IF e + 2 <= Len(s) /\ CharAt(s, e + 1) = "." /\ IsDigit(CharAt(s, e + 2))
            THEN DigitsEnd(s, e + 2) ELSE e
    IN  Fraction(DigitsEnd(s, i))

\* end of the groups (?:,\d+)* matched greedily from e + 1 on
RECURSIVE CommaGroupsEnd(_, _)
CommaGroupsEnd(s, e) ==
    IF e + 2 <= Len(s) /\ CharAt(s, e + 1) = "," /\ IsDigit(CharAt(s, e + 2))
    THEN CommaGroupsEnd(s, DigitsEnd(s, e + 2)) ELSE e

\* end of \d+(?:,\d+)*(?:\.\d+)? matched greedily at a digit at i
CommaNumberEnd(s, i) ==
    LET Fraction(e) ==
            IF e + 2 <= Len(s) /\ CharAt(s, e + 1) = "." /\ IsDigit(CharAt(s, e + 2))
            THEN DigitsEnd(s, e + 2) ELSE e
    IN  Fraction(CommaGroupsEnd(s, DigitsEnd(s, i)))

\* The range pattern matched with its first group starting at i:
\* (\d+(?:\.\d+)?)\s*[-{|}]\s*(\d+(?:,\d+)*(?:\.\d+)?).  What follows the first
\* group is a blank or a separator, so only its greedy match can succeed.
RangeMatchAt(s, i) ==
    LET SecondGroup(e1, q) ==
            IF ~(q <= Len(s) /\ IsDigit(CharAt(s, q)))
            THEN [ok |-> FALSE]
            ELSE [ok |-> TRUE,
                  group1 |-> SubSeq(s, i, e1),
                  group2 |-> SubSeq(s, q, CommaNumberEnd(s, q))]
        Separator(e1, p) ==
            IF ~(p <= Len(s) /\ InChars(CharAt(s, p), FlowRangeSeparators))
            THEN [ok |-> FALSE]
            ELSE SecondGroup(e1, SkipBlanks(s, p + 1))
        FirstGroup(e1) == Separator(e1, SkipBlanks(s, e1 + 1))
    IN  IF ~(i <= Len(s) /\ IsDigit(CharAt(s, i))) THEN [ok |-> FALSE]
        ELSE FirstGroup(NumberEnd(s, i))

\* s.replace(",", "")
RECURSIVE RemoveCommas(_)
RemoveCommas(s) ==
    IF s = "" THEN ""
    ELSE (IF CharAt(s, 1) = "," THEN "" ELSE CharAt(s, 1))
         \o RemoveCommas(SubSeq(s, 2, Len(s)))

\* int(digits), base 10
RECURSIVE NatOf(_)
NatOf(digits) ==
    IF digits = "" THEN 0
    ELSE 10 * NatOf(SubSeq(digits, 1, Len(digits) - 1))
         + DigitValue(CharAt(digits, Len(digits)))

\* float("ddd") or float("ddd.dd"), in hundredths (two decimals are kept)
FloatOf(text) ==
    LET Parts(e) ==
            100 * NatOf(SubSeq(text, 1, e))
            + NatOf(SubSeq(SubSeq(text, e + 2, Len(text)) \o "00", 1, 2))
    IN  Parts(DigitsEnd(text, 1))

\* None of an Optional[Tuple[float, float]]
NoRange == <<>>

\* the least element of a non-empty set of positions
Least(S) == CHOOSE i \in S : \A j \in S : i <= j

_parse_flow_range(flow_text) ==
    LET Groups(m) == <<FloatOf(m.group1), FloatOf(RemoveCommas(m.group2))>>
        Around(val) == <<(val * 8) \div 10, (val * 12) \div 10>>
        Single(flow_clean, i) ==
            Around(FloatOf(SubSeq(flow_clean, i, NumberEnd(flow_clean, i))))
        Search(flow_clean, starts, firsts) ==
            IF starts # {} THEN Groups(RangeMatchAt(flow_clean, Least(starts)))
            ELSE IF firsts # {} THEN Single(flow_clean, Least(firsts))
            ELSE NoRange
        Cleaned(flow_clean) ==
            Search(flow_clean,
                   {i \in 1..Len(flow_clean) : RangeMatchAt(flow_clean, i).ok},
                   {i \in 1..Len(flow_clean) : IsDigit(CharAt(flow_clean, i))})
    IN  IF flow_text = "" THEN NoRange ELSE Cleaned(FlowClean(flow_text))

(***************************************************************************)
(* SemanticCaseMatcher.calculate_flow_score                                *)
(***************************************************************************)

\* None of the Optional[float] flow
NoFlow == -1

\* f"{x:.0f}" of a non-negative float (round half to even)
Fmt0f(x) ==
    LET q == x \div 100
        r == x % 100
    IN  ToString(IF r > 50 \/ (r = 50 /\ q % 2 = 1) THEN q + 1 ELSE q)

FlowRangeText(case_range) ==
    "[" \o Fmt0f(case_range[1]) \o ", " \o Fmt0f(case_range[2]) \o "]"

\* variant: the band of 5 x the range is missing
calculate_flow_score_NoScalableBand(user_flow, case) ==
    IF user_flow = NoFlow \/ user_flow = 0
    THEN [score |-> 0, explanation |-> "No flow data"]
    ELSE IF case.typical_flow_range = ""
    THEN [score |-> 0, explanation |-> "Case has no flow data"]
    ELSE LET Told(score, how, link, case_range) ==
                 [score |-> score,
                  explanation |-> how \o Fmt0f(user_flow) \o link \o FlowRangeText(case_range)]
             Compared(case_range, case_min, case_max) ==
                 IF case_min <= user_flow /\ user_flow <= case_max
                 THEN Told(Pts(10), "Perfect: ", " in ", case_range)
                 ELSE IF case_min <= 2 * user_flow /\ user_flow <= case_max * 2
                 THEN Told(Pts(5), "Close: ", " near ", case_range)
                 ELSE Told(0 - Pts(5), "Mismatch: ", " far from ", case_range)
             Parsed(case_range) ==
                 IF case_range = NoRange
                 THEN [score |-> 0,
                       explanation |-> "Cannot parse flow: " \o case.typical_flow_range]
                 ELSE Compared(case_range, case_range[1], case_range[2])
         IN  Parsed(_parse_flow_range(case.typical_flow_range))

\* variant: a range that cannot be parsed counts as a mismatch
calculate_flow_score_PenaltyUnparsed(user_flow, case) ==
    IF user_flow = NoFlow \/ user_flow = 0
    THEN [score |-> 0, explanation |-> "No flow data"]
    ELSE IF case.typical_flow_range = ""
    THEN [score |-> 0, explanation |-> "Case has no flow data"]
    ELSE LET Told(score, how, link, case_range) ==
                 [score |-> score,
                  explanation |-> how \o Fmt0f(user_flow) \o link \o FlowRangeText(case_range)]
             Compared(case_range, case_min, case_max) ==
                 IF case_min <= user_flow /\ user_flow <= case_max
                 THEN Told(Pts(10), "Perfect: ", " in ", case_range)
                 ELSE IF case_min <= 2 * user_flow /\ user_flow <= case_max * 2
                 THEN Told(Pts(5), "Close: ", " near ", case_range)
                 ELSE IF case_min <= 5 * user_flow /\ user_flow <= case_max * 5
                 THEN Told(Pts(2), "Scalable: ", " from ", case_range)
                 ELSE Told(0 - Pts(5), "Mismatch: ", " far from ", case_range)
             Parsed(case_range) ==
                 IF case_range = NoRange
                 THEN [score |-> 0 - Pts(5),
                       explanation |-> "Cannot parse flow: " \o case.typical_flow_range]
                 ELSE Compared(case_range, case_range[1], case_range[2])
         IN  Parsed(_parse_flow_range(case.typical_flow_range))

calculate_flow_score(user_flow, case) ==
    IF user_flow = NoFlow \/ user_flow = 0
    THEN [score |-> 0, explanation |-> "No flow data"]
    ELSE IF case.typical_flow_range = ""
    THEN [score |-> 0, explanation |-> "Case has no flow data"]
    ELSE LET Told(score, how, link, case_range) ==
                 [score |-> score,
                  explanation |-> how \o Fmt0f(user_flow) \o link \o FlowRangeText(case_range)]
             Compared(case_range, case_min, case_max) ==
                 IF case_min <= user_flow /\ user_flow <= case_max
                 THEN Told(Pts(10), "Perfect: ", " in ", case_range)
                 ELSE IF case_min <= 2 * user_flow /\ user_flow <= case_max * 2
                 THEN Told(Pts(5), "Close: ", " near ", case_range)
                 ELSE IF case_min <= 5 * user_flow /\ user_flow <= case_max * 5
                 THEN Told(Pts(2), "Scalable: ", " from ", case_range)
                 ELSE Told(0 - Pts(5), "Mismatch: ", " far from ", case_range)
             Parsed(case_range) ==
                 IF case_range = NoRange
                 THEN [score |-> 0,
                       explanation |-> "Cannot parse flow: " \o case.typical_flow_range]
                 ELSE Compared(case_range, case_range[1], case_range[2])
         IN  Parsed(_parse_flow_range(case.typical_flow_range))

(***************************************************************************)
(* SemanticCaseMatcher.score_case                                          *)
(***************************************************************************)

\* UserContext: [sector, subsector, contaminants (a set), flow]
score_case(seed, case, user_context) ==
    LET MatchScore(sem, con, flw) ==
            [case_id           |-> case.id,
             total_score       |-> sem.score * WEIGHTS.semantic
                                   + con.score * WEIGHTS.contaminant
                                   + flw.score * WEIGHTS.flow,
             semantic_score    |-> sem.score,
             contaminant_score |-> con.score,
             flow_score        |-> flw.score,
             explanation       |->
                sem.explanations
                \o (IF con.matched_categories # <<>>
                    THEN <<"Contaminants: " \o Join(", ", con.matched_categories)>>
                    ELSE <<>>)
                \o (IF user_context.flow # NoFlow /\ user_context.flow # 0
                    THEN <<"Flow: " \o flw.explanation>>
                    ELSE <<>>)]
    IN  MatchScore(calculate_semantic_score(user_context.sector, user_context.subsector, case),
                   calculate_contaminant_score(seed, user_context.contaminants, case),
                   calculate_flow_score(user_context.flow, case))

(***************************************************************************)
(* v1: keyword scoring, flow compatibility, relevance bullets              *)
(***************************************************************************)

\* CONTAMINANT_TOKENS of intelligent_case_filter.py (its "ph" tokens differ)
CONTAMINANT_TOKENS_v1 ==
    [ organics     |-> <<"bod", "cod", "fog">>,
      suspended    |-> <<"tss">>,
      nutrients    |-> <<"nitrogen", "phosphorus", "ammonia", "tn", "tp">>,
      metals       |-> <<"metal", "chromium", "nickel", "copper", "zinc", "lead">>,
      hydrocarbons |-> <<"oil", "hydrocarbon", "petroleum">>,
      ph           |-> <<"ph:", "ph level", "ph=", "'ph'">>,
      color        |-> <<"color", "dyes">> ]

\* number of keywords of the list that occur in the text (a keyword that is
\* listed twice counts twice)
CountContained(keywords, text) == Len(WordsContained(keywords, text))

\* keyword_score: subsector matches 5, sector matches 2, contaminants 1
keyword_score(seed, case, subsector_keywords, sector_keywords, contaminant_categories) ==
    LET case_text == Lower(case.application_type \o " " \o case.description
                           \o " " \o case.influent_characteristics)
    IN  5 * CountContained(subsector_keywords, case_text)
        + 2 * CountContained(sector_keywords, case_text)
        + Len(MatchedCategories(SetIteration(seed, contaminant_categories),
                                CONTAMINANT_TOKENS_v1, case_text))

\* parse_flow_range: the regexes are those of _parse_flow_range
parse_flow_range(flow_text) == _parse_flow_range(flow_text)

\* is_flow_compatible, for user_flow > 0 and ranges with case_max > 0;
\* ratio < 10 is compared without the division
is_flow_compatible(user_flow, case_flow_range) ==
    LET Compatible(case_range) ==
            IF case_range = NoRange THEN TRUE
            ELSE IF case_range[1] <= user_flow /\ user_flow <= case_range[2] THEN TRUE
            ELSE IF user_flow < case_range[1]
                 THEN case_range[1] < 10 * user_flow
                 ELSE user_flow < 10 * case_range[2]
    IN  Compatible(parse_flow_range(case_flow_range))

\* two decimals, with a leading zero
TwoDigits(n) == IF n < 10 THEN "0" \o ToString(n) ELSE ToString(n)

\* f"{x}" of a non-negative float with at most two decimals: 332.0, 40.5, 1.25
FloatRepr(x) ==
    LET q == x \div 100
        r == x % 100
    IN  ToString(q) \o "."
        \o (IF r % 10 = 0 THEN ToString(r \div 10) ELSE TwoDigits(r))

\* generate_why_relevant; reasons[:3] at the end.  The three characters the
\* source ends the compatible-flow bullet with are written (ok).
generate_why_relevant(seed, case, subsector_keywords, sector_keywords, contaminant_categories, user_flow) ==
    LET case_type == Lower(case.application_type)
        subsector_matches == WordsContained(subsector_keywords, case_type)
        sector_matches    == WordsContained(sector_keywords, case_type)
        case_contaminants == Lower(case.influent_characteristics)
        contaminant_matches ==
            MatchedCategories(SetIteration(seed, contaminant_categories),
                              CONTAMINANT_TOKENS_v1, case_contaminants)
        case_flow == case.typical_flow_range
        reasons ==
            (IF subsector_matches # <<>>
             THEN <<"Subsector: " \o Join("/", subsector_matches) \o " match">>
             ELSE <<>>)
            \o (IF sector_matches # <<>> /\ subsector_matches = <<>>
                THEN <<"Sector: " \o Join("/", sector_matches) \o " match">>
                ELSE <<>>)
            \o (IF contaminant_matches # <<>>
                THEN <<"Contaminants: " \o Join(", ", contaminant_matches)>>
                ELSE <<>>)
            \o (IF user_flow # NoFlow /\ user_flow # 0
                THEN IF is_flow_compatible(user_flow, case_flow)
                     THEN <<"Flow: " \o FloatRepr(user_flow) \o " vs " \o case_flow \o " (ok)">>
                     ELSE <<"Flow: " \o FloatRepr(user_flow) \o " vs " \o case_flow \o " (scale)">>
                ELSE <<>>)
    IN  SliceTo(reasons, 3)

\* [word for word in text.split() if len(word) > 2]
RECURSIVE LongWords(_)
LongWords(words) ==
    IF words = <<>> THEN <<>>
    ELSE (IF Len(words[1]) > 2 THEN <<words[1]>> ELSE <<>>) \o LongWords(Tail(words))

\* extract_user_keywords: the keyword lists of a lowercased subsector / sector
SubsectorKeywords(subsector) ==
    IF subsector = "" THEN <<>> ELSE LongWords(Split(ReplaceUnderscore(subsector)))

SectorKeywords(sector) ==
    IF sector = "" THEN <<>> ELSE LongWords(Split(sector))

(***************************************************************************)
(* RunContext: ctx.deps.water_data and ctx.deps.client_metadata            *)
(***************************************************************************)

\* Python None of an Optional[str]
None == "None"

\* ctx.deps.water_data is None
NoWaterData == [kind |-> "None"]

\* ctx.deps.water_data is the raw, non-empty dict of the project instead of
\* the validated model: truthy, and without the attributes of the model
RawDict == [kind |-> "dict"]

\* a FlexibleWaterProjectData: sector is a str, subsector and notes are
\* Optional[str], fields are the DynamicFields [label, value, unit] of its
\* one technical section (no section when there is no field)
WaterData(sector, subsector, notes, fields) ==
    [kind |-> "FlexibleWaterProjectData", sector |-> sector,
     subsector |-> subsector, notes |-> notes, fields |-> fields]

IsModel(water_data) == water_data.kind = "FlexibleWaterProjectData"

\* bool(ctx.deps.water_data)
Truthy(water_data) == water_data.kind # "None"

\* dict.get(key, "") on a dict written as a function
GetStr(dict, key) == IF key \in DOMAIN dict THEN dict[key] ELSE ""

\* a or b or "" on Optional[str]
OrElse(a, b) == IF a # None /\ a # "" THEN a ELSE IF b # None /\ b # "" THEN b ELSE ""

\* getattr(water_data, name, None)
GetAttr(water_data, name) == IF name \in DOMAIN water_data THEN water_data[name] ELSE None

\* ctx.deps.client_metadata is None
NoMetadata == [kind |-> "None"]

\* a client_metadata value that is not a str: the int 5
NotAStr == "int(5)"

\* (water_data.<name> or client_metadata.get(key, "") or "").lower(): the
\* exception it raises, "" when it raises none.  The attribute is read
\* first; client_metadata.get is reached only when the attribute is falsy;
\* .lower() is called on the first truthy operand.
OrChainRaised(water_data, name, client_metadata, key) ==
    IF name \notin DOMAIN water_data THEN "AttributeError"
    ELSE IF water_data[name] # None /\ water_data[name] # "" THEN ""
    ELSE IF client_metadata = NoMetadata THEN "AttributeError"
    ELSE IF GetStr(client_metadata, key) = NotAStr THEN "AttributeError"
    ELSE ""

\* repr of one DynamicField in model_dump(exclude_none=True)
FieldDump(field) ==
    "{'id': 'f', 'label': '" \o field.label \o "', 'value': '" \o field.value \o "'"
    \o (IF field.unit = None THEN "" ELSE ", 'unit': '" \o field.unit \o "'")
    \o ", 'type': 'text', 'source': 'manual'}"

RECURSIVE FieldDumps(_)
FieldDumps(fields) ==
    IF fields = <<>> THEN <<>> ELSE <<FieldDump(fields[1])>> \o FieldDumps(Tail(fields))

\* str(water_data.model_dump(exclude_none=True)): the fields in the order of
\* their declaration, those that are None left out
ModelDump(water_data) ==
    "{'project_name': 'Plant', 'client': 'Acme', 'sector': '" \o water_data.sector \o "'"
    \o (IF water_data.subsector = None THEN ""
        ELSE ", 'subsector': '" \o water_data.subsector \o "'")
    \o ", 'location': 'Leon', 'technical_sections': ["
    \o (IF water_data.fields = <<>> THEN ""
        ELSE "{'id': 's', 'title': 'Water use', 'fields': ["
             \o Join(", ", FieldDumps(water_data.fields)) \o "]}")
    \o "]"
    \o (IF water_data.notes = None THEN "" ELSE ", 'notes': '" \o water_data.notes \o "'")
    \o "}"

(***************************************************************************)
(* v1: extract_user_context, extract_user_keywords, detect_user_flow       *)
(***************************************************************************)

\* v1 extract_user_context, for a water_data that has the attribute sector
\* (getattr(water_data, 'subsector', None) covers a missing subsector)
extract_user_context_v1(water_data, client_metadata) ==
    [sector    |-> Lower(OrElse(water_data.sector,
                                GetStr(client_metadata, "selected_sector"))),
     subsector |-> Lower(OrElse(GetAttr(water_data, "subsector"),
                                GetStr(client_metadata, "selected_subsector")))]

\* the exception v1 extract_user_context raises, "" when it raises none
extract_user_context_v1_raised(water_data, client_metadata) ==
    IF OrChainRaised(water_data, "sector", client_metadata, "selected_sector") # ""
    THEN "AttributeError"
    ELSE IF GetAttr(water_data, "subsector") # None /\ GetAttr(water_data, "subsector") # ""
         THEN ""
         ELSE IF client_metadata = NoMetadata
                 \/ GetStr(client_metadata, "selected_subsector") = NotAStr
              THEN "AttributeError"
              ELSE ""

\* try: str(water_data.model_dump(exclude_none=True)).lower()
\* except Exception: ""
WaterDump_v1(water_data) == IF IsModel(water_data) THEN Lower(ModelDump(water_data)) ELSE ""

\* the categories one of whose tokens occurs in the text, as a set
DetectedCategories(tokens_of, text) ==
    {category \in DOMAIN tokens_of : FirstContained(tokens_of[category], text) # 0}

\* extract_user_keywords: (subsector_keywords, sector_keywords, contaminants)
extract_user_keywords(water_data, client_metadata) ==
    LET uc == extract_user_context_v1(water_data, client_metadata)
    IN  [subsector_keywords |-> SubsectorKeywords(uc.subsector),
         sector_keywords    |-> SectorKeywords(uc.sector),
         contaminant_categories |->
             DetectedCategories(CONTAMINANT_TOKENS_v1, WaterDump_v1(water_data))]

\* the conversion factors of normalize_flow_to_m3_day, in thousandths
Conversions ==
    [u \in {"m#$/day", "m3/day", "m#$/d", "m3/d"} |-> 1000]
    @@ [u \in {"l/s", "lps"} |-> 86400]
    @@ [u \in {"m#$/h", "m3/h", "m#$/hr", "m3/hr"} |-> 24000]
    @@ [u \in {"gpm"} |-> 5451]
    @@ [u \in {"mgd"} |-> 3785410]

\* unit.strip()
RECURSIVE Strip(_)
Strip(s) ==
    IF s = "" THEN ""
    ELSE IF CharAt(s, 1) = " " THEN Strip(Tail(s))
    ELSE IF CharAt(s, Len(s)) = " " THEN Strip(SubSeq(s, 1, Len(s) - 1))
    ELSE s

\* normalize_flow_to_m3_day; value and result in hundredths.  The product
\* value * factor / 1000 is taken in two parts so that it stays in range.
normalize_flow_to_m3_day(value, unit) ==
    LET Factor(unit_lower) ==
            IF unit_lower \in DOMAIN Conversions THEN Conversions[unit_lower] ELSE 1000
        Scaled(factor) ==
            (value \div 1000) * factor + ((value % 1000) * factor) \div 1000
    IN  Scaled(Factor(Strip(Lower(unit))))

\* float(value) accepts the text: digits with an optional fraction, blanks
\* around them allowed (the other spellings float() accepts are not drawn)
IsFloatText(text) ==
    LET Accepted(t) ==
            /\ t # ""
            /\ IsDigit(CharAt(t, 1))
            /\ NumberEnd(t, 1) = Len(t)
    IN  Accepted(Strip(text))

FlowLabels == {"Water Consumption", "Wastewater Generated"}

\* 0.1 and 1_000_000 of the sanity check, in hundredths
MinSaneFlow == 10
MaxSaneFlow == 100000000

\* the loop of detect_user_flow over the fields: the first field with a flow
\* label, a truthy value float() accepts and a normalized flow inside the
\* sanity bounds decides; None when there is none
RECURSIVE detect_user_flow_fields(_)
detect_user_flow_fields(fields) ==
    IF fields = <<>> THEN NoFlow
    ELSE LET Field(field, normalized) ==
                 IF /\ field.label \in FlowLabels
                    /\ field.value # ""
                    /\ IsFloatText(field.value)
                    /\ MinSaneFlow <= normalized
                    /\ normalized <= MaxSaneFlow
                 THEN normalized
                 ELSE detect_user_flow_fields(Tail(fields))
         IN  Field(fields[1],
                   normalize_flow_to_m3_day(
                       FloatOf(Strip(fields[1].value)),
                       IF fields[1].unit = None \/ fields[1].unit = ""
                       THEN "m#$/day" ELSE fields[1].unit))

\* detect_user_flow: every exception is caught and gives None; a water_data
\* without technical_sections gives None
detect_user_flow(water_data) ==
    IF IsModel(water_data) THEN detect_user_flow_fields(water_data.fields) ELSE NoFlow

(***************************************************************************)
(* v1: two_pass_filter                                                     *)
(***************************************************************************)

\* scored_cases.sort(key=lambda x: x[0], reverse=True): a stable sort, the
\* entries [score, case] of equal score keep their order
RECURSIVE InsertByKeywordScore(_, _)
InsertByKeywordScore(sorted, entry) ==
    IF sorted = <<>> THEN <<entry>>
    ELSE IF sorted[1].score >= entry.score
         THEN <<sorted[1]>> \o InsertByKeywordScore(Tail(sorted), entry)
         ELSE <<entry>> \o sorted

RECURSIVE SortByKeywordScore(_)
SortByKeywordScore(entries) ==
    IF entries = <<>> THEN <<>>
    ELSE InsertByKeywordScore(SortByKeywordScore(SubSeq(entries, 1, Len(entries) - 1)),
                              entries[Len(entries)])

\* PASS 1: the cases of score > 0 with their score, in corpus order
RECURSIVE ScoredCases(_, _, _)
ScoredCases(seed, applications, kw) ==
    IF applications = <<>> THEN <<>>
    ELSE LET score == keyword_score(seed, applications[1], kw.subsector_keywords,
                                    kw.sector_keywords, kw.contaminant_categories)
         IN  (IF score > 0 THEN <<[score |-> score, case |-> applications[1]]>> ELSE <<>>)
             \o ScoredCases(seed, Tail(applications), kw)

RECURSIVE CasesOf(_)
CasesOf(entries) ==
    IF entries = <<>> THEN <<>> ELSE <<entries[1].case>> \o CasesOf(Tail(entries))

\* the cases of the list that satisfy keep, in their order
RECURSIVE SelectCases(_, _)
SelectCases(cases, keep) ==
    IF cases = <<>> THEN <<>>
    ELSE (IF keep[cases[1]] THEN <<cases[1]>> ELSE <<>>) \o SelectCases(Tail(cases), keep)

\* PASS 2 decision for a case of high sector relevance
KeptHighSector(user_flow, case) ==
    LET Lenient(case_range) ==
            /\ case_range # NoRange
            /\ case_range[1] <= user_flow
            /\ user_flow <= case_range[2] * 5
    IN  \/ is_flow_compatible(user_flow, case.typical_flow_range)
        \/ Lenient(parse_flow_range(case.typical_flow_range))

\* the candidates after PASS 1: the 8 best-scored cases, or the first three
\* cases of the corpus when no case scored
Candidates(applications, scored) ==
    IF scored = <<>> THEN SliceTo(applications, 3) ELSE CasesOf(SliceTo(scored, 8))

\* two_pass_filter with the keywords and the flow already extracted
FilterCases(seed, applications, kw, user_flow) ==
    LET Chosen(candidates, compatible) ==
            IF user_flow # NoFlow /\ user_flow # 0 /\ compatible # <<>>
            THEN SliceTo(compatible, 3)
            ELSE SliceTo(candidates, 3)
        Pass2(candidates, isHigh) ==
            Chosen(candidates,
                   SelectCases(candidates,
                               [case \in ToSet(candidates) |->
                                   IF isHigh[case] THEN KeptHighSector(user_flow, case)
                                   ELSE FALSE])
                   \o SelectCases(candidates,
                                  [case \in ToSet(candidates) |->
                                      IF isHigh[case] THEN FALSE
                                      ELSE is_flow_compatible(user_flow,
                                                              case.typical_flow_range)]))
        Pass1(candidates) ==
            Pass2(candidates,
                  [case \in ToSet(candidates) |->
                      keyword_score(seed, case, kw.subsector_keywords,
                                    kw.sector_keywords, {}) >= 5])
    IN  Pass1(Candidates(applications,
                         SortByKeywordScore(ScoredCases(seed, applications, kw))))

\* two_pass_filter(applications, ctx): [raised, result].  An empty corpus
\* returns before the context is read; a water_data without the attribute
\* sector raises AttributeError out of extract_user_keywords.
two_pass_filter(seed, applications, water_data, client_metadata) ==
    IF applications = <<>> THEN [raised |-> "", result |-> <<>>]
    ELSE IF ~IsModel(water_data) THEN [raised |-> "AttributeError", result |-> <<>>]
    ELSE [raised |-> "",
          result |-> FilterCases(seed, applications,
                                 extract_user_keywords(water_data, client_metadata),
                                 detect_user_flow(water_data))]

(***************************************************************************)
(* v2: extract_user_context, _detect_flow_from_water_data                  *)
(***************************************************************************)

\* s[i:] starts with the literal
StartsAt(s, i, literal) ==
    /\ i + Len(literal) - 1 <= Len(s)
    /\ SubSeq(s, i, i + Len(literal) - 1) = literal

\* the class [#$3] of the flow patterns
CubeChars == "#$3"

\* (\d+(?:\.\d+)?)\s*m[#$3]/d with the group starting at i.  What has to
\* follow the group is a blank or "m", so only its greedy match can succeed.
\* The second pattern, which ends in /day, matches from the same places.
UnitPatternAt(s, i) ==
    /\ i <= Len(s) /\ IsDigit(CharAt(s, i))
    /\ LET Unit(p) ==
               /\ StartsAt(s, p, "m")
               /\ p + 1 <= Len(s) /\ InChars(CharAt(s, p + 1), CubeChars)
               /\ StartsAt(s, p + 2, "/d")
       IN  Unit(SkipBlanks(s, NumberEnd(s, i) + 1))

DayPatternAt(s, i) ==
    /\ i <= Len(s) /\ IsDigit(CharAt(s, i))
    /\ LET Unit(p) ==
               /\ StartsAt(s, p, "m")
               /\ p + 1 <= Len(s) /\ InChars(CharAt(s, p + 1), CubeChars)
               /\ StartsAt(s, p + 2, "/day")
       IN  Unit(SkipBlanks(s, NumberEnd(s, i) + 1))

\* (\d+(?:\.\d+)?)\s*cubic.*day with the group starting at i (the dump of a
\* dict has no line break, so .* reaches any later "day")
CubicPatternAt(s, i) ==
    /\ i <= Len(s) /\ IsDigit(CharAt(s, i))
    /\ LET Unit(p) ==
               /\ StartsAt(s, p, "cubic")
               /\ \E d \in (p + 5)..Len(s) : StartsAt(s, d, "day")
       IN  Unit(SkipBlanks(s, NumberEnd(s, i) + 1))

\* flow\s*[:=]?\s*(\d+(?:\.\d+)?)... with "flow" starting at i: the place
\* of the group, 0 when the pattern does not match at i (its optional unit
\* never decides the match)
FlowPatternGroup(s, i) ==
    IF ~StartsAt(s, i, "flow") THEN 0
    ELSE LET Group(q) == IF q <= Len(s) /\ IsDigit(CharAt(s, q)) THEN q ELSE 0
             Sign(p) == Group(IF p <= Len(s) /\ InChars(CharAt(s, p), ":=")
                              THEN SkipBlanks(s, p + 1) ELSE p)
         IN  Sign(SkipBlanks(s, i + 4))

\* float(match.group(1)) of re.search for a pattern whose group starts where
\* the match starts
GroupAtLeast(s, starts) ==
    LET GroupAt(i) == FloatOf(SubSeq(s, i, NumberEnd(s, i))) IN GroupAt(Least(starts))

\* _detect_flow_from_water_data: the four patterns in their order, each
\* searched from the left in the lowercased dump; no bound on the value
_detect_flow_from_water_data(water_data) ==
    IF ~IsModel(water_data) THEN NoFlow
    ELSE LET GroupAt(s, q) == FloatOf(SubSeq(s, q, NumberEnd(s, q)))
             Search(s, unit_starts, day_starts, cubic_starts, flow_starts) ==
                 IF unit_starts # {} THEN GroupAtLeast(s, unit_starts)
                 ELSE IF day_starts # {} THEN GroupAtLeast(s, day_starts)
                 ELSE IF cubic_starts # {} THEN GroupAtLeast(s, cubic_starts)
                 ELSE IF flow_starts # {}
                      THEN GroupAt(s, FlowPatternGroup(s, Least(flow_starts)))
                      ELSE NoFlow
             Dumped(s) ==
                 Search(s,
                        {i \in 1..Len(s) : UnitPatternAt(s, i)},
                        {i \in 1..Len(s) : DayPatternAt(s, i)},
                        {i \in 1..Len(s) : CubicPatternAt(s, i)},
                        {i \in 1..Len(s) : FlowPatternGroup(s, i) # 0})
         IN  Dumped(Lower(ModelDump(water_data)))

\* v2 extract_user_context, for a water_data that has the attributes sector
\* and subsector; contaminants stays set() when model_dump raises
extract_user_context(water_data, client_metadata) ==
    [sector    |-> Lower(OrElse(water_data.sector,
                                GetStr(client_metadata, "selected_sector"))),
     subsector |-> Lower(OrElse(water_data.subsector,
                                GetStr(client_metadata, "selected_subsector"))),
     contaminants |-> IF IsModel(water_data)
                      THEN DetectedCategories(CONTAMINANT_TOKENS, Lower(ModelDump(water_data)))
                      ELSE {},
     flow      |-> _detect_flow_from_water_data(water_data)]

\* the exception v2 extract_user_context raises, "" when it raises none
extract_user_context_raised(water_data, client_metadata) ==
    IF OrChainRaised(water_data, "sector", client_metadata, "selected_sector") # ""
    THEN "AttributeError"
    ELSE OrChainRaised(water_data, "subsector", client_metadata, "selected_subsector")

(***************************************************************************)
(* SemanticCaseMatcher.find_best_matches, without its lru_cache            *)
(***************************************************************************)

\* scored_cases.append((case, score)) for case in applications
RECURSIVE ScoreAll(_, _, _)
ScoreAll(seed, applications, user_context) ==
    IF applications = <<>> THEN <<>>
    ELSE <<<<applications[1], score_case(seed, applications[1], user_context)>>>>
         \o ScoreAll(seed, Tail(applications), user_context)

\* list.sort(key=total_score, reverse=True) is stable: an entry goes behind
\* every entry whose key is greater than or equal to its own
\* variant: an entry goes in front of the entries with an equal key
RECURSIVE InsertByScore_TiesFirst(_, _)
InsertByScore_TiesFirst(sorted, entry) ==
    IF sorted = <<>> THEN <<entry>>
    ELSE IF sorted[1][2].total_score > entry[2].total_score
         THEN <<sorted[1]>> \o InsertByScore_TiesFirst(Tail(sorted), entry)
         ELSE <<entry>> \o sorted

RECURSIVE InsertByScore(_, _)
InsertByScore(sorted, entry) ==
    IF sorted = <<>> THEN <<entry>>
    ELSE IF sorted[1][2].total_score >= entry[2].total_score
         THEN <<sorted[1]>> \o InsertByScore(Tail(sorted), entry)
         ELSE <<entry>> \o sorted

RECURSIVE SortByScoreDesc(_)
SortByScoreDesc(entries) ==
    IF entries = <<>> THEN <<>>
    ELSE InsertByScore(SortByScoreDesc(SubSeq(entries, 1, Len(entries) - 1)),
                       entries[Len(entries)])

\* [(case, score) for case, score in ... if score.total_score > 0]
RECURSIVE PositiveOnly(_)
PositiveOnly(entries) ==
    IF entries = <<>> THEN <<>>
    ELSE (IF entries[1][2].total_score > 0 THEN <<entries[1]>> ELSE <<>>)
         \o PositiveOnly(Tail(entries))

\* UserContext(sector, subsector, set(contaminants_tuple), flow)
UserContextOf(sector, subsector, contaminants_tuple, flow) ==
    [sector       |-> sector,
     subsector    |-> subsector,
     contaminants |-> ToSet(contaminants_tuple),
     flow         |-> flow]

\* variant: the top N are returned without the positive-score filter
find_best_matches_KeepAll(seed, applications, sector, subsector, contaminants_tuple, flow, top_n) ==
    IF applications = <<>> THEN <<>>
    ELSE SliceTo(SortByScoreDesc(ScoreAll(seed, applications,
                    UserContextOf(sector, subsector, contaminants_tuple, flow))),
                 top_n)

\* variant: the list is cut to N before it is sorted
find_best_matches_TruncateFirst(seed, applications, sector, subsector, contaminants_tuple, flow, top_n) ==
    IF applications = <<>> THEN <<>>
    ELSE PositiveOnly(SortByScoreDesc(SliceTo(ScoreAll(seed, applications,
                    UserContextOf(sector, subsector, contaminants_tuple, flow)),
                 top_n)))

\* the body of find_best_matches once load_knowledge_base() has returned
\* a knowledge base with these applications
find_best_matches(seed, applications, sector, subsector, contaminants_tuple, flow, top_n) ==
    IF applications = <<>> THEN <<>>
    ELSE LET user_context == UserContextOf(sector, subsector, contaminants_tuple, flow)
             scored_cases == SortByScoreDesc(ScoreAll(seed, applications, user_context))
         IN  PositiveOnly(SliceTo(scored_cases, top_n))

(***************************************************************************)
(* The knowledge base and the inputs of the model                          *)
(***************************************************************************)

\* Reference cases that a knowledge-base file may hold.
FoodProcessing ==
    [id |-> 1,
     application_type |-> "Food Processing",
     description |-> "High organics, oils and fats",
     typical_flow_range |-> "50-10,000",
     influent_characteristics |-> "BOD: 800-4,000, FOG: high",
     recommended_treatment_train |-> "Screening, DAF, SBR",
     local_regulations |-> "EPA"]

MunicipalSewage ==
    [id |-> 2,
     application_type |-> "Municipal Sewage",
     description |-> "Domestic wastewater",
     typical_flow_range |-> "100-100,000",
     influent_characteristics |-> "BOD: 200-400, TSS: 250-400",
     recommended_treatment_train |-> "Screening, Activated Sludge",
     local_regulations |-> ""]

HotelHospitality ==
    [id |-> 4,
     application_type |-> "Hotel Hospitality",
     description |-> "Mixed domestic and laundry wastewater",
     typical_flow_range |-> "50~2,000",
     influent_characteristics |-> "BOD: 300-600, TSS: 200-500",
     recommended_treatment_train |-> "Screening, MBR",
     local_regulations |-> "EU"]

CasePool == {FoodProcessing, MunicipalSewage, HotelHospitality}

\* longest knowledge base of the model
MaxCorpus == 3

\* the lists of distinct cases of the pool, up to MaxCorpus long
Corpora ==
    UNION { {c \in [1..n -> CasePool] : \A i, j \in 1..n : i # j => c[i] # c[j]}
            : n \in 0..MaxCorpus }

\* the string-hash seeds of the model: two opposite iteration orders
HashSeeds == {1, 6}

\* (sector, subsector, contaminants_tuple, flow) of the queries of the model
Queries ==
    { <<"commercial", "hotel", <<"organics", "suspended">>, 33200>>,
      <<"commercial", "hotel", <<"organics">>, 33200>>,
      <<"", "hotel", <<>>, 100>> }

\* the values of top_n of the model
TopNs == {1, 3}

\* SemanticCaseMatcher instances the model creates
MaxMatchers == 2

\* maxsize of the lru_cache on find_best_matches, scaled down from 128 so
\* that the model evicts
CacheMaxSize == 1

(***************************************************************************)
(* State                                                                   *)
(***************************************************************************)

VARIABLES
    file,       \* the knowledge-base file: [readable, applications]
    hashSeed,   \* the string-hash seed of the process
    kb_v2,      \* v2 module global _knowledge_base: [loaded, applications]
    kb_v1,      \* v1 module global _knowledge_base: [loaded, applications]
    matchers,   \* number of SemanticCaseMatcher instances created so far
    cache,      \* lru_cache of find_best_matches, least recently used first
    callers,    \* the threads inside load_knowledge_base: for each its
                \* position, the module it called, the data it read and
                \* the object it returned
    python,     \* the interpreter the service runs on: "3.10" or "3.11"
    jobs,       \* the proposal generation jobs: for each its position in
                \* the endpoint and the background task, the statuses
                \* written under job:<job_id>, the attempts of
                \* _generate_with_retry and the locals of the save
    proposals,  \* table proposals, in the order of created_at
    proven_cases_context,
                \* proposal_agent._proven_cases_context: for each context
                \* key the dict stored, or NoEntry
    out         \* the last call: [op, args, raised, result, hit, repeat, near];
                \* hit: answered from the lru_cache; repeat: the call before
                \* it was the same operation on the same arguments; near: at
                \* the call the cache held another result under a key that
                \* differs from the call's in the contaminants tuple only

\* the state of the proposal service and of the proposal agent
service == <<python, jobs, proposals, proven_cases_context>>

vars == <<file, hashSeed, kb_v2, kb_v1, matchers, cache, callers, service, out>>

\* _knowledge_base is None.  reads counts the times the module has opened
\* the file; object names the dict the global holds by the number of the
\* read that made it (0: None).
NotLoaded == [loaded |-> FALSE, applications |-> <<>>, reads |-> 0, object |-> 0]

\* the threads that call load_knowledge_base
Callers == {"t1", "t2"}

NoCallers ==
    [c \in Callers |-> [pc |-> "idle", module |-> "", data |-> <<>>, returned |-> 0]]

\* the jobs the generate endpoint may start
Jobs == {"job_a", "job_b"}

\* no request has reached the generate endpoint
NoJobs ==
    [j \in Jobs |-> [pc |-> "new", project |-> "", history |-> <<>>,
                     attempts |-> <<>>, raised |-> "", new_version |-> 0,
                     proposal |-> 0, tool_calls |-> 0, matcher_calls |-> 0,
                     proven_cases |-> [kind |-> "absent"]]]

\* the projects whose generation consults the proven cases: client, sector
\* and subsector of the row
ProvenProjects == {"p1", "p2", "p3"}

ProjectRow(project) ==
    IF project = "p1"
    THEN [client |-> "Acme", sector |-> "commercial", subsector |-> "hotel"]
    ELSE IF project = "p2"
    THEN [client |-> "Acme", sector |-> "commercial", subsector |-> "food_service"]
    ELSE [client |-> "Borealis", sector |-> "municipal", subsector |-> None]

\* client_metadata as generate_proposal_async builds it from the project
ClientMetadata(project) ==
    [company_name       |-> ProjectRow(project).client,
     selected_sector    |-> ProjectRow(project).sector,
     selected_subsector |-> ProjectRow(project).subsector]

\* dict.get(key, default)
GetOr(dict, key, default) == IF key \in DOMAIN dict THEN dict[key] ELSE default

\* f"{client_metadata.get('company_name', 'unknown')}_
\*    {client_metadata.get('selected_sector', 'unknown')}"
ContextKey(client_metadata) ==
    GetOr(client_metadata, "company_name", "unknown") \o "_"
        \o GetOr(client_metadata, "selected_sector", "unknown")

\* the context keys of the projects
ContextKeys ==
    {ContextKey(ClientMetadata(project)) : project \in ProvenProjects}

\* the key is not in _proven_cases_context
NoEntry == [kind |-> "absent"]

\* _proven_cases_context = {}
NoProvenCases == [k \in ContextKeys |-> NoEntry]

\* the proposal service has started nothing
ServiceIdle ==
    /\ python = "3.11"
    /\ jobs = NoJobs
    /\ proposals = <<>>
    /\ proven_cases_context = NoProvenCases

NoCall == [op |-> "none", args |-> <<>>, raised |-> "", result |-> <<>>,
           hit |-> FALSE, repeat |-> FALSE, near |-> FALSE]

Init ==
    /\ file \in {[readable |-> FALSE, applications |-> <<>>]}
                \cup {[readable |-> TRUE, applications |-> c] : c \in Corpora}
    /\ hashSeed \in HashSeeds
    /\ kb_v2 = NotLoaded
    /\ kb_v1 = NotLoaded
    /\ matchers = 0
    /\ cache = <<>>
    /\ callers = NoCallers
    /\ ServiceIdle
    /\ out = NoCall

(***************************************************************************)
(* load_knowledge_base (same code in both modules, one global each)        *)
(***************************************************************************)

\* the value of _knowledge_base when load_knowledge_base() returns
load_knowledge_base(kb) ==
    IF kb.loaded THEN kb
    ELSE IF file.readable
         THEN [loaded |-> TRUE, applications |-> file.applications,
               reads |-> kb.reads + 1, object |-> kb.reads + 1]
         ELSE [loaded |-> TRUE, applications |-> <<>>,
               reads |-> kb.reads + 1, object |-> kb.reads + 1]

(***************************************************************************)
(* @lru_cache(maxsize=128) around find_best_matches                        *)
(***************************************************************************)

\* variant: the contaminants tuple is left out of the key
CacheKey_NoContaminants(self, sector, subsector, contaminants_tuple, flow, top_n) ==
    <<self, sector, subsector, flow, top_n>>

\* variant: top_n is left out of the key
CacheKey_NoTopN(self, sector, subsector, contaminants_tuple, flow, top_n) ==
    <<self, sector, subsector, contaminants_tuple, flow>>

\* the key of a call: the positional self and the arguments
CacheKey(self, sector, subsector, contaminants_tuple, flow, top_n) ==
    <<self, sector, subsector, contaminants_tuple, flow, top_n>>

CacheIndex(c, key) ==
    IF \E i \in 1..Len(c) : c[i].key = key
    THEN CHOOSE i \in 1..Len(c) : c[i].key = key
    ELSE 0

RemoveAt(s, i) == SubSeq(s, 1, i - 1) \o SubSeq(s, i + 1, Len(s))

\* a hit moves the entry to the most-recent end
CacheTouch(c, i) == RemoveAt(c, i) \o <<c[i]>>

\* a miss stores the result and evicts the least recently used entry
\* (call, the arguments behind the key, is kept for the properties only)
CacheStore(c, key, call, value) ==
    LET grown == c \o <<[key |-> key, call |-> call, value |-> value]>>
    IN  IF Len(grown) > CacheMaxSize THEN Tail(grown) ELSE grown

\* find_best_matches tabulated over the inputs of the model, so that a step
\* looks its value up instead of scoring the corpus again
FindArgs ==
    HashSeeds \X Corpora \X Queries \X TopNs

FindTable ==
    [a \in FindArgs |->
        find_best_matches(a[1], a[2], a[3][1], a[3][2], a[3][3], a[3][4], a[4])]
    @@ <<>>

FindBestMatchesOf(seed, applications, q, top_n) ==
    FindTable[<<seed, applications, q, top_n>>]

\* the scored, still unsorted corpus, tabulated in the same way
ScoredTable ==
    [a \in HashSeeds \X Corpora \X Queries |->
        ScoreAll(a[1], a[2], UserContextOf(a[3][1], a[3][2], a[3][3], a[3][4]))]
    @@ <<>>

ScoredOf(seed, applications, q) == ScoredTable[<<seed, applications, q>>]

\* matcher = SemanticCaseMatcher()
NewMatcher ==
    /\ matchers < MaxMatchers
    /\ matchers' = matchers + 1
    /\ out' = [op |-> "SemanticCaseMatcher", args |-> <<>>, raised |-> "",
               result |-> <<matchers + 1>>, hit |-> FALSE, repeat |-> FALSE, near |-> FALSE]
    /\ UNCHANGED <<file, hashSeed, kb_v2, kb_v1, cache, callers, service>>

\* the arguments of a call without self
UserArgs(call) == Tail(call)

\* matcher.find_best_matches(sector, subsector, contaminants_tuple, flow, top_n)
FindBestMatches(self, q, top_n) ==
    LET Returned(call, key, kb, computed, hit) ==
            /\ cache' = IF hit # 0 THEN CacheTouch(cache, hit)
                        ELSE CacheStore(cache, key, call, computed)
            /\ kb_v2' = IF hit # 0 THEN kb_v2 ELSE kb
            /\ out' = [op |-> "find_best_matches", args |-> call, raised |-> "",
                       result |-> IF hit # 0 THEN cache[hit].value ELSE computed,
                       hit    |-> hit # 0,
                       repeat |-> /\ out.op = "find_best_matches"
                                  /\ UserArgs(out.args) = UserArgs(call),
                       near   |-> \E i \in 1..Len(cache) :
                                      /\ cache[i].call # call
                                      /\ [cache[i].call EXCEPT ![4] = call[4]] = call
                                      /\ cache[i].value # computed]
        Keyed(call, key, kb) ==
            Returned(call, key, kb,
                     FindBestMatchesOf(hashSeed, kb.applications, q, top_n),
                     CacheIndex(cache, key))
    IN  /\ Keyed(<<self, q[1], q[2], q[3], q[4], top_n>>,
                 CacheKey(self, q[1], q[2], q[3], q[4], top_n),
                 load_knowledge_base(kb_v2))
        /\ UNCHANGED <<file, hashSeed, kb_v1, matchers, callers, service>>

CallFindBestMatches ==
    \E self \in 1..matchers, q \in Queries, top_n \in TopNs :
        FindBestMatches(self, q, top_n)

NextMatcher == NewMatcher \/ CallFindBestMatches

SpecMatcher == Init /\ [][NextMatcher]_vars

(***************************************************************************)
(* get_engineering_references, v1 and v2                                   *)
(***************************************************************************)

\* detect_regulatory_mismatch; None is "None"
detect_regulatory_mismatch(user_regulation, case_regulation) ==
    IF user_regulation = "" \/ case_regulation = "" THEN None
    ELSE LET user_reg == Lower(user_regulation)
             case_reg == Lower(case_regulation)
         IN  IF Contains("eu", user_reg) /\ Contains("epa", case_reg) THEN "eu_from_epa"
             ELSE IF Contains("epa", user_reg) /\ Contains("eu", case_reg) THEN "epa_from_eu"
             ELSE IF user_reg # case_reg THEN "regulatory_adjustment_needed"
             ELSE None

\* one entry of similar_cases of v1
SimilarCase_v1(seed, case, kw, user_flow, user_regulation) ==
    LET mismatch == detect_regulatory_mismatch(user_regulation, case.local_regulations)
    IN  [application_type |-> case.application_type,
         flow_range       |-> case.typical_flow_range,
         contaminants     |-> case.influent_characteristics,
         treatment_train  |-> case.recommended_treatment_train,
         why_relevant     |-> generate_why_relevant(seed, case, kw.subsector_keywords,
                                 kw.sector_keywords, kw.contaminant_categories, user_flow),
         regulatory_notes |-> IF mismatch # None
                              THEN "requires_adjustments: " \o mismatch
                              ELSE "direct_application_possible"]

RECURSIVE SimilarCases_v1(_, _, _, _, _)
SimilarCases_v1(seed, cases, kw, user_flow, user_regulation) ==
    IF cases = <<>> THEN <<>>
    ELSE <<SimilarCase_v1(seed, cases[1], kw, user_flow, user_regulation)>>
         \o SimilarCases_v1(seed, Tail(cases), kw, user_flow, user_regulation)

\* the dict of the two fallback returns of v1; error is None when the dict
\* has no such key
Fallback_v1(message, error) ==
    LET base == [similar_cases  |-> <<>>,
                 user_sector    |-> "unknown",
                 user_subsector |-> "unknown",
                 total_found    |-> 0,
                 search_profile |-> [total_cases |-> 0],
                 message        |-> message,
                 status         |-> "fallback"]
    IN  IF error = None THEN base ELSE base @@ [error |-> error]

\* the body of v1 get_engineering_references once water_data is truthy and
\* the knowledge base holds applications: the returned dict
References_v1(seed, applications, water_data, client_metadata) ==
    IF applications = <<>>
    THEN [similar_cases  |-> <<>>,
          message        |-> "No reference cases available",
          search_profile |-> [total_cases |-> 0]]
    ELSE IF ~IsModel(water_data)
    THEN Fallback_v1("Case database temporarily unavailable. Proceeding with general engineering analysis.",
                     "'dict' object has no attribute 'sector'")
    ELSE LET Profile(kw, contaminants) ==
                 [subsector_keywords |-> kw.subsector_keywords,
                  sector_keywords    |-> kw.sector_keywords,
                  contaminants       |-> contaminants,
                  candidates_before  |-> Len(applications)]
             Answer(kw, user_flow, filtered_cases, similar_cases, profile) ==
                 IF filtered_cases = <<>>
                 THEN [similar_cases  |-> <<>>,
                       message        |-> "Low-signal fallback - no similar cases found",
                       search_profile |-> profile @@ [candidates_after |-> 0]]
                 ELSE [similar_cases  |-> similar_cases,
                       user_sector    |-> IF kw.sector_keywords # <<>>
                                          THEN Join(" ", kw.sector_keywords) ELSE "unknown",
                       user_subsector |-> IF kw.subsector_keywords # <<>>
                                          THEN Join(" ", kw.subsector_keywords) ELSE "unknown",
                       total_found    |-> Len(similar_cases),
                       search_profile |-> profile @@ [user_flow |-> user_flow,
                                                      candidates_after |-> Len(filtered_cases)],
                       message        |-> "Found " \o ToString(Len(similar_cases))
                                          \o " highly relevant cases using enhanced Two-Pass filtering"]
             Filtered(kw, user_flow, filtered_cases) ==
                 Answer(kw, user_flow, filtered_cases,
                        SimilarCases_v1(seed, filtered_cases, kw, user_flow,
                                        GetStr(client_metadata, "regulation")),
                        Profile(kw, SetIteration(seed, kw.contaminant_categories)))
         IN  Filtered(extract_user_keywords(water_data, client_metadata),
                      detect_user_flow(water_data),
                      two_pass_filter(seed, applications, water_data,
                                      client_metadata).result)

\* round(total_score, 2), in hundredths, of a total counted in twenty-fourths
Round2(total) ==
    LET n == total * 25
        q == n \div 6
        r == n % 6
    IN  IF r > 3 \/ (r = 3 /\ q % 2 = 1) THEN q + 1 ELSE q

\* one entry of similar_cases of v2
RECURSIVE SimilarCases_v2(_)
SimilarCases_v2(best_matches) ==
    IF best_matches = <<>> THEN <<>>
    ELSE LET Entry(case, match_score) ==
                 [application_type |-> case.application_type,
                  flow_range       |-> case.typical_flow_range,
                  contaminants     |-> case.influent_characteristics,
                  treatment_train  |-> case.recommended_treatment_train,
                  why_relevant     |-> match_score.explanation,
                  match_score      |-> Round2(match_score.total_score),
                  regulatory_notes |-> "direct_application_possible"]
         IN  <<Entry(best_matches[1][1], best_matches[1][2])>>
             \o SimilarCases_v2(Tail(best_matches))

\* the dict v2 get_engineering_references builds from the matches
References_v2(seed, applications, user_context, best_matches) ==
    LET Profile(contaminants) ==
            [sector       |-> user_context.sector,
             subsector    |-> user_context.subsector,
             contaminants |-> contaminants,
             total_cases_evaluated |-> Len(applications),
             matching_method |-> "semantic_v2"]
        Answer(profile, similar_cases) ==
            IF best_matches = <<>>
            THEN [similar_cases  |-> <<>>,
                  message        |-> "No highly relevant cases found. Proceeding with general best practices.",
                  search_profile |-> profile @@ [flow |-> user_context.flow]]
            ELSE [similar_cases  |-> similar_cases,
                  user_sector    |-> user_context.sector,
                  user_subsector |-> user_context.subsector,
                  total_found    |-> Len(similar_cases),
                  search_profile |-> profile @@ [user_flow |-> user_context.flow],
                  message        |-> "Found " \o ToString(Len(similar_cases))
                                     \o " highly relevant cases using semantic matching"]
    IN  Answer(Profile(SetIteration(seed, user_context.contaminants)),
               SimilarCases_v2(best_matches))

(***************************************************************************)
(* The tool called on drawn contexts (SpecTools)                           *)
(***************************************************************************)

HotelData ==
    WaterData("commercial", "hotel", "flow: 332 m3/day, BOD 450, TSS 300",
              <<[label |-> "Water Consumption", value |-> "332", unit |-> "m3/day"]>>)

CommercialData == WaterData("Commercial", None, None, <<>>)

MiningData == WaterData("mining", None, None, <<>>)

MunicipalData ==
    WaterData("municipal", None, "pH 7",
              <<[label |-> "Wastewater Generated", value |-> "5", unit |-> "m3/h"]>>)

ModelWaterDatas == {HotelData, CommercialData, MiningData, MunicipalData}

ToolWaterDatas == {NoWaterData, RawDict} \cup ModelWaterDatas

ToolMetadatas ==
    { [company_name |-> "Acme"],
      [company_name |-> "Acme", selected_subsector |-> "Food_Service", regulation |-> "EPA"] }

\* the knowledge bases the tool is called on: empty, or MaxCorpus cases
ToolCorpora == {c \in Corpora : Len(c) \in {0, MaxCorpus}}

InitTools ==
    /\ file \in {[readable |-> FALSE, applications |-> <<>>]}
                \cup {[readable |-> TRUE, applications |-> c] : c \in ToolCorpora}
    /\ hashSeed \in HashSeeds
    /\ kb_v2 = NotLoaded
    /\ kb_v1 = NotLoaded
    /\ matchers = 0
    /\ cache = <<>>
    /\ callers = NoCallers
    /\ ServiceIdle
    /\ out = NoCall

\* the handlers tabulated over the contexts of the model
ToolArgs == HashSeeds \X ToolCorpora \X ToolWaterDatas \X ToolMetadatas

\* v1, for the contexts whose water_data is truthy
ReferencesTable_v1 ==
    [a \in {b \in ToolArgs : Truthy(b[3])} |-> References_v1(a[1], a[2], a[3], a[4])]
    @@ <<>>

\* v2: the extracted context, the matches and the returned dict, for the
\* contexts whose water_data is a validated model
ReferencesTable_v2 ==
    [a \in {b \in ToolArgs : IsModel(b[3])} |->
        LET Matched(user_context, best_matches) ==
                [user_context |-> user_context,
                 best_matches |-> best_matches,
                 result       |-> References_v2(a[1], a[2], user_context, best_matches)]
            Extracted(user_context) ==
                Matched(user_context,
                        find_best_matches(a[1], a[2], user_context.sector,
                                          user_context.subsector,
                                          SortedTuple(user_context.contaminants),
                                          user_context.flow, 3))
        IN  Extracted(extract_user_context(a[3], a[4]))]
    @@ <<>>

TwoPassTable ==
    [a \in ToolArgs |-> two_pass_filter(a[1], a[2], a[3], a[4])] @@ <<>>

ToolCall(op, args, raised, result) ==
    [op |-> op, args |-> args, raised |-> raised, result |-> result,
     hit |-> FALSE, repeat |-> FALSE, near |-> FALSE]

\* v1: await get_engineering_references(ctx)
GetEngineeringReferences_v1(water_data, client_metadata) ==
    LET Loaded(kb) ==
            /\ out' = ToolCall("get_engineering_references_v1",
                               <<water_data, client_metadata>>, "",
                               ReferencesTable_v1[<<hashSeed, kb.applications,
                                                    water_data, client_metadata>>])
            /\ kb_v1' = kb
    IN  /\ IF ~Truthy(water_data)
           THEN /\ out' = ToolCall("get_engineering_references_v1",
                              <<water_data, client_metadata>>, "",
                              Fallback_v1("Water project data unavailable. Proceeding with general engineering analysis.",
                                          None))
                /\ kb_v1' = kb_v1
           ELSE Loaded(load_knowledge_base(kb_v1))
        /\ UNCHANGED <<file, hashSeed, kb_v2, matchers, cache, callers, service>>

\* v2: await get_engineering_references(ctx).  Every exception raised inside
\* is turned into ModelRetry, which leaves the function.
GetEngineeringReferences_v2(water_data, client_metadata) ==
    LET Found(key, call, kb, row, hit) ==
            /\ kb_v2' = kb
            /\ cache' = IF hit # 0 THEN CacheTouch(cache, hit)
                        ELSE CacheStore(cache, key, call, row.best_matches)
            /\ out' = [ToolCall("get_engineering_references_v2",
                                <<water_data, client_metadata>>, "", row.result)
                          EXCEPT !.hit = (hit # 0)]
        Keyed(key, call, kb, row) == Found(key, call, kb, row, CacheIndex(cache, key))
        Matched(self, kb, user_context, contaminants_tuple, row) ==
            /\ matchers < MaxMatchers
            /\ matchers' = self
            /\ Keyed(CacheKey(self, user_context.sector, user_context.subsector,
                              contaminants_tuple, user_context.flow, 3),
                     <<self, user_context.sector, user_context.subsector,
                       contaminants_tuple, user_context.flow, 3>>,
                     kb, row)
            /\ UNCHANGED <<file, hashSeed, kb_v1, callers, service>>
        Extracted(kb, row) ==
            Matched(matchers + 1, kb, row.user_context,
                    SortedTuple(row.user_context.contaminants), row)
        Loaded(kb) ==
            Extracted(kb, ReferencesTable_v2[<<hashSeed, kb.applications,
                                               water_data, client_metadata>>])
    IN  IF ~Truthy(water_data) \/ ~IsModel(water_data)
        THEN /\ out' = ToolCall("get_engineering_references_v2",
                                <<water_data, client_metadata>>, "ModelRetry", <<>>)
             /\ UNCHANGED <<file, hashSeed, kb_v2, kb_v1, matchers, cache, callers, service>>
        ELSE Loaded(load_knowledge_base(kb_v2))

\* two_pass_filter(applications, ctx) called on a corpus
TwoPassFilter(applications, water_data, client_metadata) ==
    LET Returned(r) ==
            out' = ToolCall("two_pass_filter", <<applications, water_data, client_metadata>>,
                            r.raised, r.result)
    IN  /\ Returned(TwoPassTable[<<hashSeed, applications, water_data, client_metadata>>])
        /\ UNCHANGED <<file, hashSeed, kb_v2, kb_v1, matchers, cache, callers, service>>

CallReferences_v1 ==
    \E water_data \in ToolWaterDatas, client_metadata \in ToolMetadatas :
        GetEngineeringReferences_v1(water_data, client_metadata)

CallReferences_v2 ==
    \E water_data \in ToolWaterDatas, client_metadata \in ToolMetadatas :
        GetEngineeringReferences_v2(water_data, client_metadata)

CallTwoPassFilter ==
    \E applications \in ToolCorpora, water_data \in ToolWaterDatas,
       client_metadata \in ToolMetadatas :
        TwoPassFilter(applications, water_data, client_metadata)

NextTools == CallReferences_v1 \/ CallReferences_v2 \/ CallTwoPassFilter

SpecTools == InitTools /\ [][NextTools]_vars

(***************************************************************************)
(* The scoring functions applied to drawn inputs (SpecScoring)             *)
(***************************************************************************)

ScoringSectors == {"", "commercial", "municipal"}

ScoringSubsectors == {"", "hotel", "food_service", "food_packaging", "shopping_mall"}

ScoringContaminants == {{}, {"organics"}, {"organics", "suspended"}}

ScoringFlows == {NoFlow, 100, 33200}

\* <<case, sector, subsector, contaminants, flow>>
ScoringInputs ==
    CasePool \X ScoringSectors \X ScoringSubsectors \X ScoringContaminants \X ScoringFlows

InitScoring ==
    /\ file = [readable |-> FALSE, applications |-> <<>>]
    /\ hashSeed \in HashSeeds
    /\ kb_v2 = NotLoaded
    /\ kb_v1 = NotLoaded
    /\ matchers = 1
    /\ cache = <<>>
    /\ callers = NoCallers
    /\ ServiceIdle
    /\ out \in {[op |-> "input", args |-> a, raised |-> "", result |-> <<>>,
                 hit |-> FALSE, repeat |-> FALSE, near |-> FALSE] : a \in ScoringInputs}

\* matcher.score_case(case, UserContext(sector, subsector, contaminants, flow))
ApplyScoreCase ==
    /\ out.op = "input"
    /\ out' = [out EXCEPT
                 !.op = "score_case",
                 !.result = score_case(hashSeed, out.args[1],
                                [sector       |-> out.args[2],
                                 subsector    |-> out.args[3],
                                 contaminants |-> out.args[4],
                                 flow         |-> out.args[5]])]
    /\ UNCHANGED <<file, hashSeed, kb_v2, kb_v1, matchers, cache, callers, service>>

\* v1: generate_why_relevant(case, subsector_keywords, sector_keywords,
\*                           contaminant_categories, user_flow)
ApplyGenerateWhyRelevant ==
    /\ out.op = "input"
    /\ out' = [out EXCEPT
                 !.op = "generate_why_relevant",
                 !.result = generate_why_relevant(hashSeed, out.args[1],
                                SubsectorKeywords(out.args[3]),
                                SectorKeywords(out.args[2]),
                                out.args[4], out.args[5])]
    /\ UNCHANGED <<file, hashSeed, kb_v2, kb_v1, matchers, cache, callers, service>>

NextScoring == ApplyScoreCase \/ ApplyGenerateWhyRelevant

SpecScoring == InitScoring /\ [][NextScoring]_vars

(***************************************************************************)
(* Properties of the scoring functions (SpecScoring)                       *)
(***************************************************************************)

\* C9: every explanation list handed back as why_relevant -- the
\* MatchScore.explanation of score_case (v2) and the list of
\* generate_why_relevant (v1) -- has at most 3 entries.
C9_WhyRelevantAtMost3 ==
    /\ out.op = "score_case" => Len(out.result.explanation) <= 3
    /\ out.op = "generate_why_relevant" => Len(out.result) <= 3

\* the elements of a list
Elements(lst) == {lst[i] : i \in 1..Len(lst)}

\* what the three subsector strategies find in the semantic text of the case
DirectPhraseFound(case, subsector) ==
    Contains(ReplaceUnderscore(subsector), SemanticCaseText(case))

SynonymFound(case, subsector) ==
    \E term \in Elements(GetList(SUBSECTOR_SYNONYMS, subsector)) :
        Contains(term, SemanticCaseText(case))

SubsectorWordsFound(case, subsector) ==
    LET words == Split(ReplaceUnderscore(subsector))
    IN  Cardinality({i \in 1..Len(words) : Contains(words[i], SemanticCaseText(case))})

SectorFound(case, sector) ==
    /\ sector # ""
    /\ \E term \in {sector} \cup Elements(GetList(SECTOR_SYNONYMS, sector)) :
          Contains(term, SemanticCaseText(case))

\* C10: the subsector contribution to the semantic score comes from the one
\* highest-priority strategy that matches -- 15 direct, else 12 synonym, else
\* 5 x matched words / words, else 0 -- and with the sector bonus of 8 the
\* semantic score never exceeds 23.
C10_OneSubsectorStrategy ==
    out.op = "score_case" =>
        LET case      == out.args[1]
            subsector == out.args[3]
            words     == Split(ReplaceUnderscore(subsector))
            fromSub   ==
                IF subsector = "" THEN 0
                ELSE IF DirectPhraseFound(case, subsector) THEN Pts(15)
                ELSE IF SynonymFound(case, subsector) THEN Pts(12)
                ELSE IF words = <<>> THEN 0
                ELSE (Pts(5) * SubsectorWordsFound(case, subsector)) \div Len(words)
            fromSector == IF SectorFound(case, out.args[2]) THEN Pts(8) ELSE 0
        IN  /\ out.result.semantic_score = fromSector + fromSub
            /\ out.result.semantic_score <= Pts(23)

\* a case that matches the subsector directly and through a synonym and
\* through its words, and the sector too: the score is 23, not more
C10_Witness ==
    /\ out.op = "score_case"
    /\ DirectPhraseFound(out.args[1], out.args[3])
    /\ SynonymFound(out.args[1], out.args[3])
    /\ SubsectorWordsFound(out.args[1], out.args[3]) >= 1
    /\ SectorFound(out.args[1], out.args[2])
    /\ out.result.semantic_score = Pts(23)

(***************************************************************************)
(* Properties of the tool (SpecTools)                                      *)
(***************************************************************************)

IsReferences ==
    out.op \in {"get_engineering_references_v1", "get_engineering_references_v2"}

\* C3: get_engineering_references, v1 and v2, never lets an exception reach
\* its caller: every call returns a result, and for a None or malformed
\* project-data object the result has similar_cases == [].
C3_NeverRaises ==
    IsReferences =>
        /\ out.raised = ""
        /\ ~IsModel(out.args[1]) => out.result.similar_cases = <<>>

\* the documented fallback result: returned, no cases, a message, and
\* status "fallback"
IsDocumentedFallback ==
    /\ out.raised = ""
    /\ out.result.similar_cases = <<>>
    /\ "message" \in DOMAIN out.result
    /\ "status" \in DOMAIN out.result
    /\ out.result.status = "fallback"

\* C4: when the knowledge base failed to load, get_engineering_references
\* returns the documented fallback result (empty similar_cases, a message,
\* status "fallback").  The calls looked at are those with a validated
\* water_data, which get as far as loading the knowledge base.
C4_LoadFailureGivesFallback ==
    (IsReferences /\ IsModel(out.args[1]) /\ ~file.readable) => IsDocumentedFallback

\* keyword_score of a corpus case against the keywords of a context
KeywordScoreOf(seed, case, water_data, client_metadata) ==
    LET kw == extract_user_keywords(water_data, client_metadata)
    IN  keyword_score(seed, case, kw.subsector_keywords, kw.sector_keywords,
                      kw.contaminant_categories)

\* C5: two_pass_filter returns only cases whose keyword_score against the
\* user's keywords is > 0; when the corpus is not empty and no case scores
\* > 0 it returns an empty list.
C5_OnlyPositiveKeywordScores ==
    (out.op = "two_pass_filter" /\ out.raised = "") =>
        /\ \A i \in 1..Len(out.result) :
              KeywordScoreOf(hashSeed, out.result[i], out.args[2], out.args[3]) > 0
        /\ (\A i \in 1..Len(out.args[1]) :
              KeywordScoreOf(hashSeed, out.args[1][i], out.args[2], out.args[3]) <= 0)
           => out.result = <<>>

(***************************************************************************)
(* Properties of find_best_matches (SpecMatcher)                           *)
(***************************************************************************)

IsFind == out.op = "find_best_matches"

\* the query and top_n of the last find_best_matches call
OutQuery == SubSeq(out.args, 2, 5)
OutTopN  == out.args[6]

\* place of a case in the loaded knowledge base
CorpusIndex(case) ==
    CHOOSE i \in 1..Len(kb_v2.applications) : kb_v2.applications[i] = case

\* C1: find_best_matches returns at most top_n entries (top_n >= 1), and
\* every returned entry has total_score > 0.
C1_AtMostTopNAllPositive ==
    (IsFind /\ OutTopN >= 1) =>
        /\ Len(out.result) <= OutTopN
        /\ \A i \in 1..Len(out.result) : out.result[i][2].total_score > 0

\* a call that cut a longer corpus down to exactly top_n entries
C1_Witness ==
    /\ IsFind /\ ~out.hit
    /\ Len(out.result) = OutTopN
    /\ Len(kb_v2.applications) > OutTopN

\* C2: the returned list is ordered by total_score from highest to lowest,
\* and returned cases with equal total_score keep their corpus order.
C2_DescendingStable ==
    IsFind =>
        \A i, j \in 1..Len(out.result) :
            i < j =>
                /\ out.result[i][2].total_score >= out.result[j][2].total_score
                /\ out.result[i][2].total_score = out.result[j][2].total_score
                     => CorpusIndex(out.result[i][1]) < CorpusIndex(out.result[j][1])

\* a result with a tie behind a strictly better entry
C2_Witness ==
    /\ IsFind
    /\ \E i, j \in 1..Len(out.result) :
          /\ i < j
          /\ out.result[i][2].total_score = out.result[j][2].total_score
    /\ \E i, j \in 1..Len(out.result) :
          out.result[i][2].total_score > out.result[j][2].total_score

\* C6: whatever the calls before it, a find_best_matches call returns what an
\* uncached evaluation of its own arguments returns; it is never answered
\* with the entry of another argument tuple.
C6_CacheTransparent ==
    IsFind =>
        out.result = FindBestMatchesOf(hashSeed, kb_v2.applications, OutQuery, OutTopN)

\* a call made while the cache held a different result for the same
\* arguments but for the contaminants tuple
C6_Witness == IsFind /\ out.near /\ Len(out.result) >= 1

PositiveCount(seed, applications, q) ==
    Len(PositiveOnly(ScoredOf(seed, applications, q)))

\* C8: the result is the first top_n entries of the rank-ordered list of the
\* cases with total_score > 0, so with k such cases it has min(k, top_n)
\* entries.

C8_FilterThenTruncate ==
    (IsFind /\ OutTopN >= 1) =>
        LET scored == ScoredOf(hashSeed, kb_v2.applications, OutQuery)
            k      == PositiveCount(hashSeed, kb_v2.applications, OutQuery)
        IN  /\ out.result = SliceTo(PositiveOnly(SortByScoreDesc(scored)), OutTopN)
            /\ Len(out.result) = IF k < OutTopN THEN k ELSE OutTopN

\* a call on a corpus at least top_n long that returned fewer than top_n
\* entries: a non-positive score sat among the first top_n ranks
C8_Witness ==
    /\ IsFind /\ ~out.hit
    /\ Len(kb_v2.applications) >= OutTopN
    /\ Len(out.result) >= 1
    /\ Len(out.result) < OutTopN

(***************************************************************************)
(* Contaminant classification on drawn texts (SpecContaminants)            *)
(***************************************************************************)

\* a reference case whose influent names phosphorus and no pH
NutrientRemoval ==
    [id |-> 7,
     application_type |-> "Nutrient Removal",
     description |-> "Tertiary treatment of lagoon effluent",
     typical_flow_range |-> "200-5,000",
     influent_characteristics |-> "Total Phosphorus: 8, Ammonia: 40",
     recommended_treatment_train |-> "Anoxic tank, chemical precipitation",
     local_regulations |-> "EU"]

\* a reference case whose influent gives a pH value
AcidRinse ==
    [id |-> 8,
     application_type |-> "Metal Finishing",
     description |-> "Acid rinse water",
     typical_flow_range |-> "10-200",
     influent_characteristics |-> "pH: 2-4, Chromium: 15, COD: 300, BOD: 90",
     recommended_treatment_train |-> "Neutralization, precipitation",
     local_regulations |-> "EPA"]

ContaminantCases == {FoodProcessing, MunicipalSewage, NutrientRemoval, AcidRinse}

\* the sets of categories of the user
ContaminantSets ==
    { {}, {"organics"}, {"organics", "suspended"}, {"ph"}, {"nutrients", "ph"},
      {"metals", "nutrients", "organics"} }

\* a project whose notes name phosphorus and no pH
PhosphorusData == WaterData("industrial", None, "Total phosphorus 12 mg/L", <<>>)

\* a project whose notes give a pH value the way a dump of a field shows it
AcidData ==
    WaterData("industrial", "metal_finishing", "rinse water",
              <<[label |-> "pH", value |-> "3", unit |-> None]>>)

ContaminantDatas == {HotelData, MunicipalData, PhosphorusData, AcidData}

\* <<case, user_contaminants, water_data>>
ContaminantInputs == ContaminantCases \X ContaminantSets \X ContaminantDatas

InitContaminants ==
    /\ file = [readable |-> FALSE, applications |-> <<>>]
    /\ hashSeed \in HashSeeds
    /\ kb_v2 = NotLoaded
    /\ kb_v1 = NotLoaded
    /\ matchers = 1
    /\ cache = <<>>
    /\ callers = NoCallers
    /\ ServiceIdle
    /\ out \in {[op |-> "input", args |-> a, raised |-> "", result |-> <<>>,
                 hit |-> FALSE, repeat |-> FALSE, near |-> FALSE] : a \in ContaminantInputs}

\* matcher.calculate_contaminant_score(user_contaminants, case)
ApplyContaminantScore ==
    /\ out.op = "input"
    /\ out' = [out EXCEPT
                 !.op = "calculate_contaminant_score",
                 !.result = calculate_contaminant_score(hashSeed, out.args[2], out.args[1])]
    /\ UNCHANGED <<file, hashSeed, kb_v2, kb_v1, matchers, cache, callers, service>>

\* v1: the contaminant part of keyword_score, the categories that add a point
ApplyKeywordContaminants ==
    /\ out.op = "input"
    /\ out' = [out EXCEPT
                 !.op = "keyword_score",
                 !.result = keyword_score(hashSeed, out.args[1], <<>>, <<>>, out.args[2])]
    /\ UNCHANGED <<file, hashSeed, kb_v2, kb_v1, matchers, cache, callers, service>>

\* v2: extract_user_context(ctx).contaminants
ApplyDetectContaminants_v2 ==
    /\ out.op = "input"
    /\ out' = [out EXCEPT
                 !.op = "extract_user_context",
                 !.result = extract_user_context(out.args[3],
                                                 [company_name |-> "Acme"]).contaminants]
    /\ UNCHANGED <<file, hashSeed, kb_v2, kb_v1, matchers, cache, callers, service>>

\* v1: the detected_contaminants of extract_user_keywords(ctx)
ApplyDetectContaminants_v1 ==
    /\ out.op = "input"
    /\ out' = [out EXCEPT
                 !.op = "extract_user_keywords",
                 !.result = extract_user_keywords(out.args[3],
                                [company_name |-> "Acme"]).contaminant_categories]
    /\ UNCHANGED <<file, hashSeed, kb_v2, kb_v1, matchers, cache, callers, service>>

NextContaminants ==
    \/ ApplyContaminantScore
    \/ ApplyKeywordContaminants
    \/ ApplyDetectContaminants_v2
    \/ ApplyDetectContaminants_v1

SpecContaminants == InitContaminants /\ [][NextContaminants]_vars

\* the user's categories with at least one token in the influent of the case
CategoriesInCase(user_contaminants, case) ==
    {category \in user_contaminants :
        \E token \in Elements(GetList(CONTAMINANT_TOKENS, category)) :
            Contains(token, Lower(case.influent_characteristics))}

\* the tokens of a category that occur in the influent of the case
TokensInCase(category, case) ==
    {token \in Elements(GetList(CONTAMINANT_TOKENS, category)) :
        Contains(token, Lower(case.influent_characteristics))}

\* C11: calculate_contaminant_score is 5 times the number of the user's
\* categories that have at least one token in the case's
\* influent_characteristics; a category counts once however many of its
\* tokens occur, matched_categories lists each such category exactly once,
\* and the score is at most 5 x the number of the user's categories.
C11_FivePerMatchedCategory ==
    out.op = "calculate_contaminant_score" =>
        /\ out.result.score = Pts(5) * Cardinality(CategoriesInCase(out.args[2], out.args[1]))
        /\ Elements(out.result.matched_categories) = CategoriesInCase(out.args[2], out.args[1])
        /\ Len(out.result.matched_categories)
               = Cardinality(CategoriesInCase(out.args[2], out.args[1]))
        /\ out.result.score <= Pts(5) * Cardinality(out.args[2])

\* two categories matched, one of them through two of its tokens, and a
\* third category of the user without a token in the case
C11_Witness ==
    /\ out.op = "calculate_contaminant_score"
    /\ Cardinality(out.args[2]) = 3
    /\ Len(out.result.matched_categories) = 2
    /\ \E category \in out.args[2] : Cardinality(TokensInCase(category, out.args[1])) >= 2
    /\ out.result.score = Pts(10)

(***************************************************************************)
(* Flow scoring and flow-range parsing on drawn texts (SpecFlow)           *)
(***************************************************************************)

\* the numbers and the separators the range texts are written with
RangeLows  == {"50", "100", "1,000"}
RangeHighs == {"500", "5,000", "10,000"}
RangeDashes == {"-", "~"}

\* the range texts "A-B" and "A~B"
RangeTexts ==
    {low \o dash \o high : low \in RangeLows, dash \in RangeDashes, high \in RangeHighs}

\* typical_flow_range of the drawn cases; "" also stands for a case
\* without the key, which case.get("typical_flow_range", "") reads as ""
FlowTexts == RangeTexts \cup {"", "N/A", "varies", "-", "200"}

\* user_flow of the drawn calls: None, 0.0, and flows from 1 to 60,000
UserFlows == {NoFlow, 0, 100, 2500, 6000, 33200, 80000, 200000, 6000000}

\* <<user_flow, typical_flow_range>>
FlowInputs == UserFlows \X FlowTexts

InitFlow ==
    /\ file = [readable |-> FALSE, applications |-> <<>>]
    /\ hashSeed \in HashSeeds
    /\ kb_v2 = NotLoaded
    /\ kb_v1 = NotLoaded
    /\ matchers = 1
    /\ cache = <<>>
    /\ callers = NoCallers
    /\ ServiceIdle
    /\ out \in {[op |-> "input", args |-> a, raised |-> "", result |-> <<>>,
                 hit |-> FALSE, repeat |-> FALSE, near |-> FALSE] : a \in FlowInputs}

\* matcher.calculate_flow_score(user_flow, {"typical_flow_range": text})
ApplyFlowScore ==
    /\ out.op = "input"
    /\ out' = [out EXCEPT
                 !.op = "calculate_flow_score",
                 !.result = calculate_flow_score(out.args[1],
                                                 [typical_flow_range |-> out.args[2]])]
    /\ UNCHANGED <<file, hashSeed, kb_v2, kb_v1, matchers, cache, callers, service>>

\* matcher._parse_flow_range(flow_text)
ApplyParseFlowRange_v2 ==
    /\ out.op = "input"
    /\ out' = [out EXCEPT !.op = "_parse_flow_range",
                          !.result = _parse_flow_range(out.args[2])]
    /\ UNCHANGED <<file, hashSeed, kb_v2, kb_v1, matchers, cache, callers, service>>

\* v1: parse_flow_range(flow_text)
ApplyParseFlowRange_v1 ==
    /\ out.op = "input"
    /\ out' = [out EXCEPT !.op = "parse_flow_range",
                          !.result = parse_flow_range(out.args[2])]
    /\ UNCHANGED <<file, hashSeed, kb_v2, kb_v1, matchers, cache, callers, service>>

\* v1, PASS 2 of two_pass_filter on one candidate whose typical_flow_range
\* is the text: whether it is kept as compatible when it is sector-relevant
\* (combined_score >= 5) and when it is not
ApplyFlowPass_v1 ==
    /\ out.op = "input"
    /\ out.args[1] # NoFlow /\ out.args[1] # 0
    /\ out' = [out EXCEPT
                 !.op = "two_pass_filter: PASS 2",
                 !.result = [high_sector |->
                                 KeptHighSector(out.args[1],
                                                [typical_flow_range |-> out.args[2]]),
                             low_sector |-> is_flow_compatible(out.args[1], out.args[2])]]
    /\ UNCHANGED <<file, hashSeed, kb_v2, kb_v1, matchers, cache, callers, service>>

NextFlow ==
    ApplyFlowScore \/ ApplyParseFlowRange_v2 \/ ApplyParseFlowRange_v1 \/ ApplyFlowPass_v1

SpecFlow == InitFlow /\ [][NextFlow]_vars

\* the number a text of RangeLows / RangeHighs writes, in hundredths
WrittenNumber(text) == FloatOf(RemoveCommas(text))

\* the text has no digit: nothing in it can be read as a flow
HasNoDigit(text) == \A i \in 1..Len(text) : ~IsDigit(CharAt(text, i))

C13_NoFlowDataScoresZero ==
    (/\ out.op = "calculate_flow_score"
     /\ (out.args[1] = NoFlow \/ out.args[2] = "" \/ HasNoDigit(out.args[2]))) =>
        /\ out.raised = ""
        /\ out.result.score = 0

\* a user flow against a range text without a number
C13_Witness ==
    /\ out.op = "calculate_flow_score"
    /\ out.args[1] > 0
    /\ out.args[2] # ""
    /\ HasNoDigit(out.args[2])
    /\ out.result.score = 0

\* C14: the flow-range parsers return (A, B) for every text "A-B" or "A~B",
\* hyphen or en dash, comma thousands separators allowed in A and in B.
C14_ParsesDashAndCommas ==
    out.op \in {"_parse_flow_range", "parse_flow_range"} =>
        \A low \in RangeLows, dash \in RangeDashes, high \in RangeHighs :
            out.args[2] = low \o dash \o high =>
                out.result = <<WrittenNumber(low), WrittenNumber(high)>>

(***************************************************************************)
(* The "ph" category and words that contain the letters "ph"               *)
(***************************************************************************)

IsLetter(c) == \E i \in 1..Len(LowerLetters) : CharAt(LowerLetters, i) = c

\* the lowercased text holds "ph" as a word of its own, as in "pH: 7"
MentionsPH(text) ==
    \E i \in 1..(Len(text) - 1) :
        /\ SubSeq(text, i, i + 1) = "ph"
        /\ i = 1 \/ ~IsLetter(CharAt(text, i - 1))
        /\ i + 1 = Len(text) \/ ~IsLetter(CharAt(text, i + 2))

\* the lowercased text names phosphorus and gives no pH
PhosphorusWithoutPH(text) == Contains("phosphorus", text) /\ ~MentionsPH(text)

\* C15: in either matcher the "ph" category is never reported because of a
\* substring collision: a text that mentions "phosphorus" but no pH value is
\* classified as nutrients and not as ph, both when the user's contaminants
\* are detected and when a case's influent_characteristics is matched.
C15_NoPhByCollision ==
    /\ (out.op \in {"extract_user_context", "extract_user_keywords"}
        /\ PhosphorusWithoutPH(Lower(ModelDump(out.args[3]))))
           => ("nutrients" \in out.result /\ "ph" \notin out.result)
    /\ (out.op = "calculate_contaminant_score"
        /\ PhosphorusWithoutPH(Lower(out.args[1].influent_characteristics)))
           => "ph" \notin Elements(out.result.matched_categories)

(***************************************************************************)
(* Extraction of the user context on drawn contexts (SpecContext)          *)
(***************************************************************************)

\* a project without a sector of its own, whose notes and whose flow field
\* give a flow above 1,000,000 m3/day
BlankSectorData ==
    WaterData("", None, "flow: 5000000 m3/day",
              <<[label |-> "Water Consumption", value |-> "5000000", unit |-> "m3/day"]>>)

\* a project with an empty subsector and a flow below 0.1 m3/day
TrickleData ==
    WaterData("industrial", "", "0.05 m3/day",
              <<[label |-> "Wastewater Generated", value |-> "0.05", unit |-> None]>>)

\* an object of an older data model: a sector, no subsector attribute, no
\* model_dump
LegacyData == [kind |-> "legacy", sector |-> "Industrial"]

\* an object with both attributes whose model_dump raises
OpaqueData == [kind |-> "opaque", sector |-> "", subsector |-> None]

ContextWaterDatas ==
    {HotelData, CommercialData, MunicipalData, BlankSectorData, TrickleData,
     LegacyData, OpaqueData, NoWaterData, RawDict}

\* client_metadata: without the keys, with them, with untrimmed values, with
\* the None values of a new project, with values that are no str, and None
ContextMetadatas ==
    { [company_name |-> "Acme"],
      [company_name |-> "Acme", selected_sector |-> "Industrial",
       selected_subsector |-> "Food_Service"],
      [company_name |-> "Acme", selected_sector |-> " Industrial ",
       selected_subsector |-> "Food Service "],
      [company_name |-> "Acme", selected_sector |-> None, selected_subsector |-> None],
      [company_name |-> "Acme", selected_sector |-> NotAStr, selected_subsector |-> NotAStr],
      NoMetadata }

\* <<water_data, client_metadata>>
ContextInputs == ContextWaterDatas \X ContextMetadatas

InitContext ==
    /\ file = [readable |-> FALSE, applications |-> <<>>]
    /\ hashSeed \in {1}
    /\ kb_v2 = NotLoaded
    /\ kb_v1 = NotLoaded
    /\ matchers = 1
    /\ cache = <<>>
    /\ callers = NoCallers
    /\ ServiceIdle
    /\ out \in {[op |-> "input", args |-> a, raised |-> "", result |-> <<>>,
                 hit |-> FALSE, repeat |-> FALSE, near |-> FALSE] : a \in ContextInputs}

\* v2: extract_user_context(ctx)
ApplyExtractUserContext_v2 ==
    /\ out.op = "input"
    /\ out' = [out EXCEPT
                 !.op = "extract_user_context",
                 !.raised = extract_user_context_raised(out.args[1], out.args[2]),
                 !.result = IF extract_user_context_raised(out.args[1], out.args[2]) # ""
                            THEN <<>>
                            ELSE extract_user_context(out.args[1], out.args[2])]
    /\ UNCHANGED <<file, hashSeed, kb_v2, kb_v1, matchers, cache, callers, service>>

\* v1: extract_user_context(ctx)
ApplyExtractUserContext_v1 ==
    /\ out.op = "input"
    /\ out' = [out EXCEPT
                 !.op = "extract_user_context_v1",
                 !.raised = extract_user_context_v1_raised(out.args[1], out.args[2]),
                 !.result = IF extract_user_context_v1_raised(out.args[1], out.args[2]) # ""
                            THEN <<>>
                            ELSE extract_user_context_v1(out.args[1], out.args[2])]
    /\ UNCHANGED <<file, hashSeed, kb_v2, kb_v1, matchers, cache, callers, service>>

\* v1: extract_user_keywords(ctx), which calls extract_user_context first
ApplyExtractUserKeywords ==
    /\ out.op = "input"
    /\ out' = [out EXCEPT
                 !.op = "extract_user_keywords",
                 !.raised = extract_user_context_v1_raised(out.args[1], out.args[2]),
                 !.result = IF extract_user_context_v1_raised(out.args[1], out.args[2]) # ""
                            THEN <<>>
                            ELSE extract_user_keywords(out.args[1], out.args[2])]
    /\ UNCHANGED <<file, hashSeed, kb_v2, kb_v1, matchers, cache, callers, service>>

\* v1: detect_user_flow(ctx)
ApplyDetectUserFlow ==
    /\ out.op = "input"
    /\ out' = [out EXCEPT
                 !.op = "detect_user_flow",
                 !.result = [flow |-> detect_user_flow(out.args[1])]]
    /\ UNCHANGED <<file, hashSeed, kb_v2, kb_v1, matchers, cache, callers, service>>

\* v2: _detect_flow_from_water_data(water_data)
ApplyDetectFlowFromWaterData ==
    /\ out.op = "input"
    /\ out' = [out EXCEPT
                 !.op = "_detect_flow_from_water_data",
                 !.result = [flow |-> _detect_flow_from_water_data(out.args[1])]]
    /\ UNCHANGED <<file, hashSeed, kb_v2, kb_v1, matchers, cache, callers, service>>

NextContext ==
    \/ ApplyExtractUserContext_v2
    \/ ApplyExtractUserContext_v1
    \/ ApplyExtractUserKeywords
    \/ ApplyDetectUserFlow
    \/ ApplyDetectFlowFromWaterData

SpecContext == InitContext /\ [][NextContext]_vars

\* C16: extract_user_context never raises, for any project-data object and
\* any client metadata (missing sector or subsector attribute, non-string
\* values, failing serialization, absent metadata): a user context is still
\* returned, with every field that cannot be derived at its default.
C16_ExtractionNeverRaises ==
    out.op \in {"extract_user_context", "extract_user_context_v1", "extract_user_keywords"}
        => (out.raised = "" /\ out.result # <<>>)

\* the flow is None or lies within [0.1, 1,000,000] m3/day
SaneOrNone(flow) == flow = NoFlow \/ (MinSaneFlow <= flow /\ flow <= MaxSaneFlow)

\* C17: every flow value that flow detection hands to the matcher
\* (detect_user_flow in v1, _detect_flow_from_water_data in v2) lies within
\* [0.1, 1,000,000] m3/day: a value outside this bound is treated as not
\* found, never clamped and never passed on.
C17_DetectedFlowWithinBounds ==
    /\ out.op \in {"detect_user_flow", "_detect_flow_from_water_data"}
           => SaneOrNone(out.result.flow)
    /\ (out.op = "extract_user_context" /\ out.raised = "")
           => SaneOrNone(out.result.flow)

\* the first of the two values that is not empty, else "": lowercased, and
\* without leading or trailing whitespace
FirstNonEmptyNormalized(field, fallback) ==
    IF field # None /\ field # "" THEN Lower(Strip(field))
    ELSE IF fallback # None /\ fallback # "" THEN Lower(Strip(fallback))
    ELSE ""

\* C20: the sector and the subsector of the extracted user context are the
\* structured project field if it is non-empty, otherwise the client-metadata
\* selected_sector / selected_subsector, otherwise the empty string, and the
\* stored value is always lowercased and has no leading or trailing
\* whitespace.
C20_SectorFromFieldElseMetadata ==
    (out.op \in {"extract_user_context", "extract_user_context_v1"} /\ out.raised = "")
        => /\ out.result.sector
                  = FirstNonEmptyNormalized(out.args[1].sector,
                                            GetStr(out.args[2], "selected_sector"))
           /\ out.result.subsector
                  = FirstNonEmptyNormalized(GetAttr(out.args[1], "subsector"),
                                            GetStr(out.args[2], "selected_subsector"))

(***************************************************************************)
(* Subsectors that SUBSECTOR_SYNONYMS does not list                        *)
(***************************************************************************)

\* the words of the subsector that occur in the case's application_type or
\* description
SubsectorWordsInCase(user_subsector, case) ==
    {word \in Elements(Split(ReplaceUnderscore(user_subsector))) :
        Contains(word, SemanticCaseText(case))}

\* C19: for a subsector that is absent from SUBSECTOR_SYNONYMS, score_case
\* returns a valid MatchScore without raising, and its semantic score is > 0
\* whenever at least one underscore-separated word of the subsector occurs in
\* the case's application_type or description text.
C19_UnknownSubsectorStillScores ==
    (out.op = "score_case" /\ out.args[3] # "" /\ out.args[3] \notin DOMAIN SUBSECTOR_SYNONYMS)
        => /\ out.raised = ""
           /\ out.result.case_id = out.args[1].id
           /\ out.result.semantic_score >= 0
           /\ out.result.total_score
                  = out.result.semantic_score * WEIGHTS.semantic
                    + out.result.contaminant_score * WEIGHTS.contaminant
                    + out.result.flow_score * WEIGHTS.flow
           /\ SubsectorWordsInCase(out.args[3], out.args[1]) # {}
                  => out.result.semantic_score > 0

\* an unlisted subsector of two words, one of them in the text of the case
\* and the subsector as a whole not, the sector without a match
C19_Witness ==
    /\ out.op = "score_case"
    /\ out.args[3] \notin DOMAIN SUBSECTOR_SYNONYMS
    /\ Cardinality(Elements(Split(ReplaceUnderscore(out.args[3])))) = 2
    /\ Cardinality(SubsectorWordsInCase(out.args[3], out.args[1])) = 1
    /\ ~Contains(ReplaceUnderscore(out.args[3]), SemanticCaseText(out.args[1]))
    /\ out.result.semantic_score = Pts(5) \div 2

(***************************************************************************)
(* load_knowledge_base called from threads (SpecLoad)                      *)
(***************************************************************************)

\* the two modules, each with its own load_knowledge_base and global
Modules == {"v1", "v2"}

\* the module global _knowledge_base
Global(module) == IF module = "v2" THEN kb_v2 ELSE kb_v1

\* global _knowledge_base; _knowledge_base = kb
SetGlobal(module, kb) ==
    IF module = "v2" THEN kb_v2' = kb /\ kb_v1' = kb_v1
                     ELSE kb_v1' = kb /\ kb_v2' = kb_v2

InitLoad ==
    /\ file \in {[readable |-> FALSE, applications |-> <<>>]}
                \cup {[readable |-> TRUE, applications |-> c] : c \in ToolCorpora}
    /\ hashSeed \in {1}
    /\ kb_v2 = NotLoaded
    /\ kb_v1 = NotLoaded
    /\ matchers = 0
    /\ cache = <<>>
    /\ callers = NoCallers
    /\ ServiceIdle
    /\ out = NoCall

\* a thread enters load_knowledge_base: if _knowledge_base is None.  When
\* the global is set the thread goes to the return statement at once.
LoadCheck(c, module) ==
    /\ callers[c].pc \in {"idle", "returned"}
    /\ callers' = [callers EXCEPT ![c] =
                      [pc |-> IF Global(module).loaded THEN "return" ELSE "open",
                       module |-> module, data |-> <<>>, returned |-> 0]]
    /\ UNCHANGED <<file, hashSeed, kb_v2, kb_v1, matchers, cache, service, out>>

\* with open(path) as f: json.load(f); a failure is kept as the empty list
\* of the except branch
LoadRead(c) ==
    /\ callers[c].pc = "open"
    /\ callers' = [callers EXCEPT ![c].pc = "assign",
                                  ![c].data = IF file.readable THEN file.applications
                                              ELSE <<>>,
                                  ![c].returned = Global(callers[c].module).reads + 1]
    /\ SetGlobal(callers[c].module,
                 [Global(callers[c].module) EXCEPT !.reads = @ + 1])
    /\ UNCHANGED <<file, hashSeed, matchers, cache, service, out>>

\* _knowledge_base = <the dict just made>, in the try or in the except branch
LoadAssign(c) ==
    /\ callers[c].pc = "assign"
    /\ callers' = [callers EXCEPT ![c].pc = "return", ![c].returned = 0]
    /\ SetGlobal(callers[c].module,
                 [Global(callers[c].module) EXCEPT
                     !.loaded = TRUE,
                     !.applications = callers[c].data,
                     !.object = callers[c].returned])
    /\ UNCHANGED <<file, hashSeed, matchers, cache, service, out>>

\* return _knowledge_base
LoadReturn(c) ==
    /\ callers[c].pc = "return"
    /\ callers' = [callers EXCEPT ![c].pc = "returned",
                                  ![c].returned = Global(callers[c].module).object]
    /\ out' = ToolCall("load_knowledge_base", <<c, callers[c].module>>, "",
                       Global(callers[c].module).applications)
    /\ UNCHANGED <<file, hashSeed, kb_v2, kb_v1, matchers, cache, service>>

NextLoad ==
    \/ \E c \in Callers, module \in Modules : LoadCheck(c, module)
    \/ \E c \in Callers : LoadRead(c)
    \/ \E c \in Callers : LoadAssign(c)
    \/ \E c \in Callers : LoadReturn(c)

SpecLoad == InitLoad /\ [][NextLoad]_vars

\* C18: load_knowledge_base reads the knowledge-base file at most once per
\* process, also when the first calls come from concurrent callers: loading
\* is guarded against duplicate concurrent loads, and once a first load has
\* succeeded or failed every later call returns the same cached object
\* without reading the file again.
C18_FileReadAtMostOnce ==
    /\ kb_v2.reads <= 1
    /\ kb_v1.reads <= 1
    /\ \A c, d \in Callers :
           (/\ callers[c].pc = "returned"
            /\ callers[d].pc = "returned"
            /\ callers[c].module = callers[d].module)
               => callers[c].returned = callers[d].returned

(***************************************************************************)
(* find_best_matches on drawn corpora and contexts (SpecRanking)           *)
(***************************************************************************)

\* the corpora that hold at least two cases
RankCorpora == {c \in Corpora : Len(c) >= 2}

\* <<applications, sector, subsector, contaminants, flow>>
RankInputs ==
    RankCorpora \X ScoringSectors \X ScoringSubsectors \X ScoringContaminants \X ScoringFlows

InitRanking ==
    /\ file = [readable |-> FALSE, applications |-> <<>>]
    /\ hashSeed \in {1}
    /\ kb_v2 = NotLoaded
    /\ kb_v1 = NotLoaded
    /\ matchers = 1
    /\ cache = <<>>
    /\ callers = NoCallers
    /\ ServiceIdle
    /\ out \in {[op |-> "input", args |-> a, raised |-> "", result |-> <<>>,
                 hit |-> FALSE, repeat |-> FALSE, near |-> FALSE] : a \in RankInputs}

\* matcher.find_best_matches(sector, subsector, tuple(sorted(contaminants)),
\* flow, top_n=3) on a knowledge base that holds the applications
ApplyFindBestMatches ==
    /\ out.op = "input"
    /\ out' = [out EXCEPT
                 !.op = "find_best_matches",
                 !.result = find_best_matches(hashSeed, out.args[1], out.args[2],
                                              out.args[3], SortedTuple(out.args[4]),
                                              out.args[5], 3)]
    /\ UNCHANGED <<file, hashSeed, kb_v2, kb_v1, matchers, cache, callers, service>>

NextRanking == ApplyFindBestMatches

SpecRanking == InitRanking /\ [][NextRanking]_vars

\* the place of the case in the returned list, 0 when it is not returned
RankOf(case) ==
    IF \E i \in 1..Len(out.result) : out.result[i][1] = case
    THEN CHOOSE i \in 1..Len(out.result) : out.result[i][1] = case
    ELSE 0

\* the commercial / food_service context with organics and 332 m3/day, on a
\* corpus with the Food Processing and the Municipal Sewage case
IsFoodServiceQuery ==
    /\ out.op = "find_best_matches"
    /\ {FoodProcessing, MunicipalSewage} \subseteq Elements(out.args[1])
    /\ out.args[2] = "commercial"
    /\ out.args[3] = "food_service"
    /\ out.args[4] = {"organics"}
    /\ out.args[5] = 33200

Projects == {"p1", "p2"}

\* the names proposal_agent.py defines at module level
proposal_agent_names ==
    {"logger", "_proven_cases_context", "_log_deviation_analysis",
     "ProposalGenerationError", "ProposalContext", "load_proposal_prompt",
     "proposal_agent", "inject_company_context", "inject_water_project_data",
     "inject_client_requirements", "get_proven_water_treatment_cases",
     "calculate_mass_balance", "size_biological_reactor",
     "validate_treatment_efficiency", "calculate_total_capex",
     "calculate_annual_opex", "generate_enhanced_proposal"}

\* from app.agents.proposal_agent import <name>: "" or the exception raised
ImportFromProposalAgent(name) ==
    IF name \in proposal_agent_names THEN "" ELSE "ImportError"

\* job_data of cache_service.set_job_status; result and error are left out
\* of the dict when they are falsy
JobData(status, progress, proposalId, error) ==
    [status |-> status, progress |-> progress, proposalId |-> proposalId,
     error |-> error]

\* await cache_service.set_job_status(job_id, ...): job:<job_id> is set to
\* the new dict; history keeps every dict written
set_job_status(job, status, progress, proposalId, error) ==
    [job EXCEPT !.history = Append(@, JobData(status, progress, proposalId, error))]

\* the dict cache_service.get_job_status returns: the last one written
JobStatus(j) ==
    IF jobs[j].history = <<>> THEN JobData("None", 0, 0, "")
    ELSE jobs[j].history[Len(jobs[j].history)]

\* what the agent run of one attempt does: it returns an output, it raises
\* one of the OpenAI errors or a validation error, or it is not done after
\* 480 seconds
AgentOutcomes ==
    {"output", "APIError", "RateLimitError", "APITimeoutError",
     "APIConnectionError", "ValidationError", "hang"}

\* asyncio.TimeoutError is the builtin TimeoutError from Python 3.11 on
AsyncioTimeoutIsBuiltin == python = "3.11"

\* generate_enhanced_proposal: every Exception raised in its body leaves it
\* as ProposalGenerationError
generate_enhanced_proposal(outcome) ==
    IF outcome \in {"output", "hang"} THEN outcome ELSE "ProposalGenerationError"

\* the body of _generate_with_retry: asyncio.wait_for(..., timeout=480)
\* raises asyncio.TimeoutError, which "except TimeoutError" turns into
\* ProposalGenerationError where the two are the same class; everything
\* else is raised again.  "" stands for a returned output.
GenerateBody(outcome) ==
    LET Awaited(r) ==
            IF r = "output" THEN ""
            ELSE IF r = "hang"
                 THEN IF AsyncioTimeoutIsBuiltin THEN "ProposalGenerationError"
                      ELSE "asyncio.TimeoutError"
                 ELSE r
    IN  Awaited(generate_enhanced_proposal(outcome))

\* retry=retry_if_exception_type((APIError, RateLimitError, APITimeoutError,
\* APIConnectionError, asyncio.TimeoutError))
retry_if_exception_type(raised) ==
    raised \in {"APIError", "RateLimitError", "APITimeoutError",
                "APIConnectionError", "asyncio.TimeoutError"}

\* stop=stop_after_attempt(2)
stop_after_attempt(attempt_number) == attempt_number >= 2

\* variant: the handler writes the failed status and generate_proposal_async
\* goes on where it was
Failed_NoReturn(job, raised) == set_job_status(job, "failed", 0, 0, raised)

\* the exception leaves generate_proposal_async through a handler that
\* writes the failed status
Failed(job, raised) ==
    [set_job_status(job, "failed", 0, 0, raised) EXCEPT
        !.pc = "returned", !.raised = ""]

InitJobs ==
    /\ file = [readable |-> FALSE, applications |-> <<>>]
    /\ hashSeed \in {1}
    /\ kb_v2 = NotLoaded
    /\ kb_v1 = NotLoaded
    /\ matchers = 0
    /\ cache = <<>>
    /\ callers = NoCallers
    /\ python \in {"3.10", "3.11"}
    /\ jobs = NoJobs
    /\ proposals = <<>>
    /\ proven_cases_context = NoProvenCases
    /\ out = NoCall

\* everything but jobs
JobsFrame ==
    UNCHANGED <<file, hashSeed, kb_v2, kb_v1, matchers, cache, callers, python,
                proposals, proven_cases_context, out>>

\* POST /generate: the project exists; start_proposal_generation writes
\* "queued" and the endpoint adds the background task
StartProposalGeneration(j, project) ==
    /\ jobs[j].pc = "new"
    /\ jobs' = [jobs EXCEPT ![j] =
                   [set_job_status(jobs[j], "queued", 0, 0, "") EXCEPT
                       !.pc = "queued", !.project = project]]
    /\ JobsFrame

\* generate_proposal_async_wrapper: async with AsyncSessionLocal() as db.
\* An exception raised here leaves the background task.
OpenSession(j, opened) ==
    /\ jobs[j].pc = "queued"
    /\ jobs' = [jobs EXCEPT ![j] =
                   IF opened THEN [@ EXCEPT !.pc = "status_10"]
                   ELSE [@ EXCEPT !.pc = "raised", !.raised = "SQLAlchemyError"]]
    /\ JobsFrame

\* a set_job_status(status="processing", progress=...) of
\* generate_proposal_async and what follows it up to the next await
Processing(job, progress, next) ==
    [set_job_status(job, "processing", progress, 0, "") EXCEPT !.pc = next]

\* progress 10: "Loading project data..."
SetLoadingProject(j) ==
    /\ jobs[j].pc = "status_10"
    /\ jobs' = [jobs EXCEPT ![j] = Processing(@, 10, "load_project")]
    /\ JobsFrame

\* result = await db.execute(select(Project)...); scalar_one_or_none(); a
\* missing project raises ValueError
LoadProject(j, loaded) ==
    /\ jobs[j].pc = "load_project"
    /\ jobs' = [jobs EXCEPT ![j] =
                   IF loaded = "project" THEN [@ EXCEPT !.pc = "status_20"]
                   ELSE IF loaded = "None" THEN Failed(@, "ValueError")
                   ELSE Failed(@, "SQLAlchemyError")]
    /\ JobsFrame

\* progress 20: "Loading technical data..."
SetLoadingTechnical(j) ==
    /\ jobs[j].pc = "status_20"
    /\ jobs' = [jobs EXCEPT ![j] = Processing(@, 20, "status_30")]
    /\ JobsFrame

\* progress 30: "Preparing data for AI analysis...", then the technical
\* data and the client metadata are built
SetPreparing(j) ==
    /\ jobs[j].pc = "status_30"
    /\ jobs' = [jobs EXCEPT ![j] = Processing(@, 30, "status_40")]
    /\ JobsFrame

\* progress 40: "Generating proposal with AI..."
SetGenerating(j) ==
    /\ jobs[j].pc = "status_40"
    /\ jobs' = [jobs EXCEPT ![j] = Processing(@, 40, "generate")]
    /\ JobsFrame

\* one attempt of _generate_with_retry under tenacity, and what
\* generate_proposal_async does with its end: another attempt after the
\* wait, the import after a returned output, "except ProposalGenerationError"
\* or the outer "except Exception"
Attempt(j, outcome) ==
    LET Ended(job, raised, attempt_number) ==
            IF raised = ""
            THEN IF ImportFromProposalAgent("_get_proven_cases_cache_key") = ""
                 THEN [job EXCEPT !.pc = "status_80"]
                 ELSE Failed(job, ImportFromProposalAgent("_get_proven_cases_cache_key"))
            ELSE IF retry_if_exception_type(raised) /\ ~stop_after_attempt(attempt_number)
                 THEN job
                 ELSE Failed(job, raised)
        Tried(raised) ==
            Ended([jobs[j] EXCEPT !.attempts =
                      Append(@, [outcome |-> outcome, raised |-> raised])],
                  raised, Len(jobs[j].attempts) + 1)
    IN  /\ jobs[j].pc = "generate"
        /\ jobs' = [jobs EXCEPT ![j] = Tried(GenerateBody(outcome))]
        /\ JobsFrame

NextJobs ==
    \/ \E j \in Jobs, project \in Projects : StartProposalGeneration(j, project)
    \/ \E j \in Jobs, opened \in BOOLEAN : OpenSession(j, opened)
    \/ \E j \in Jobs : SetLoadingProject(j)
    \/ \E j \in Jobs, loaded \in {"project", "None", "error"} : LoadProject(j, loaded)
    \/ \E j \in Jobs : SetLoadingTechnical(j)
    \/ \E j \in Jobs : SetPreparing(j)
    \/ \E j \in Jobs : SetGenerating(j)
    \/ \E j \in Jobs, outcome \in AgentOutcomes : Attempt(j, outcome)

SpecJobs == InitJobs /\ [][NextJobs]_vars

\* the failures of an attempt the retry is meant for: an OpenAI API,
\* rate-limit, timeout or connection error of the agent run, or the 480
\* second timeout
TransientOutcome(outcome) ==
    outcome \in {"APIError", "RateLimitError", "APITimeoutError",
                 "APIConnectionError", "hang"}

\* C23: _generate_with_retry makes a second attempt exactly when the first
\* attempt fails with a transient error (an OpenAI API, rate-limit, timeout
\* or connection error raised during generation, or the 480-second
\* timeout), never makes more than 2 attempts, and fails at once on any
\* permanent error.
C23_SecondAttemptExactlyOnTransient ==
    \A j \in Jobs :
        /\ Len(jobs[j].attempts) <= 2
        /\ Len(jobs[j].attempts) >= 1 =>
               ((Len(jobs[j].attempts) = 2 \/ jobs[j].pc = "generate")
                   <=> TransientOutcome(jobs[j].attempts[1].outcome))

\* what holds of the retry: there are never more than 2 attempts, a
\* permanent error and an error raised by the agent run end the generation
\* at the first attempt, and a second attempt follows only a first attempt
\* that ran into the 480 second timeout on an interpreter where
\* asyncio.TimeoutError is not the builtin TimeoutError
C23_SecondAttemptOnlyOnOldTimeout ==
    \A j \in Jobs :
        /\ Len(jobs[j].attempts) <= 2
        /\ Len(jobs[j].attempts) >= 1 =>
               ((Len(jobs[j].attempts) = 2 \/ jobs[j].pc = "generate")
                   <=> (/\ jobs[j].attempts[1].outcome = "hang"
                        /\ ~AsyncioTimeoutIsBuiltin))

\* the generation of the job has ended with a returned output
GenerationSucceeded(j) ==
    /\ jobs[j].attempts # <<>>
    /\ jobs[j].attempts[Len(jobs[j].attempts)].raised = ""

\* C22: when the AI generation of a job succeeds (_generate_with_retry
\* returns a proposal output), generate_proposal_async saves the proposal to
\* the database and the final status of the job is "completed" with progress
\* 100 and the id of the saved proposal in result.proposalId.
C22_SuccessEndsCompleted ==
    \A j \in Jobs :
        (GenerationSucceeded(j) /\ jobs[j].pc = "returned")
            => /\ JobStatus(j).status = "completed"
               /\ JobStatus(j).progress = 100
               /\ \E i \in DOMAIN proposals :
                      /\ proposals[i].id = JobStatus(j).proposalId
                      /\ proposals[i].project_id = jobs[j].project

\* a step of the background task of job j
BackgroundStep(j) ==
    \/ \E opened \in BOOLEAN : OpenSession(j, opened)
    \/ SetLoadingProject(j)
    \/ \E loaded \in {"project", "None", "error"} : LoadProject(j, loaded)
    \/ SetLoadingTechnical(j)
    \/ SetPreparing(j)
    \/ SetGenerating(j)
    \/ \E outcome \in AgentOutcomes : Attempt(j, outcome)

\* the background task added by the endpoint is run after the response, and
\* the event loop resumes every coroutine whose await is over
SpecJobsFair == SpecJobs /\ \A j \in Jobs : WF_vars(BackgroundStep(j))

TerminalStatuses == {"completed", "failed"}

\* the progress values of the "processing" writes
ProcessingProgress == {10, 20, 30, 40, 80}

\* queued -> processing -> (completed | failed) on the dicts written so far
FollowsJobStateMachine(history) ==
    /\ history # <<>> => history[1] = JobData("queued", 0, 0, "")
    /\ \A i \in 2..Len(history) :
           /\ history[i].status \in {"processing"} \cup TerminalStatuses
           /\ history[i - 1].status \notin TerminalStatuses
           /\ history[i].status = "processing"
                  => /\ history[i].progress \in ProcessingProgress
                     /\ history[i - 1].status = "processing"
                            => history[i - 1].progress <= history[i].progress

C29_EveryJobReachesTerminalStatus ==
    \A j \in Jobs :
        (jobs[j].pc = "queued") ~> (JobStatus(j).status \in TerminalStatuses)

(***************************************************************************)
(* generate_proposal_async from "Saving proposal..." on (SpecSave)         *)
(***************************************************************************)

\* a row of table proposals; version holds the two numbers of "v1.0"
ProposalRow(id, project_id, version) ==
    [id |-> id, project_id |-> project_id, version |-> version]

\* float(latest_proposal.version.replace("v", "")), in tenths
VersionNum(version) == 10 * version[1] + version[2]

\* f"v{version_num + 0.1:.1f}", from tenths
FormatVersion(tenths) == <<tenths \div 10, tenths % 10>>

\* select(Proposal).where(project_id == ...).order_by(created_at.desc())
\* .limit(1): the rows of the project, newest first
RowsOfProject(rows, project_id) ==
    SelectSeq(rows, LAMBDA row : row.project_id = project_id)

\* latest_proposal decides new_version
NewVersion(rows) ==
    IF rows # <<>> THEN FormatVersion(VersionNum(rows[Len(rows)].version) + 1)
    ELSE <<1, 0>>

\* the table after n proposals of project p1 were generated one after the
\* other: v1.0, v1.1, ...
FirstProposals(n) == [i \in 1..n |-> ProposalRow(i, "p1", FormatVersion(9 + i))]

\* the tables the segment starts on
SavedTables == {FirstProposals(0), FirstProposals(1), FirstProposals(10)}

\* the job as generate_proposal_async has it when the generation has
\* returned an output and the proven cases have been read
Generated(project) ==
    [pc |-> "status_80", project |-> project,
     history |-> <<JobData("queued", 0, 0, ""), JobData("processing", 10, 0, ""),
                   JobData("processing", 20, 0, ""), JobData("processing", 30, 0, ""),
                   JobData("processing", 40, 0, "")>>,
     attempts |-> <<[outcome |-> "output", raised |-> ""]>>,
     raised |-> "", new_version |-> 0, proposal |-> 0,
     tool_calls |-> 0, matcher_calls |-> 0, proven_cases |-> NoEntry]

InitSave ==
    /\ file = [readable |-> FALSE, applications |-> <<>>]
    /\ hashSeed \in {1}
    /\ kb_v2 = NotLoaded
    /\ kb_v1 = NotLoaded
    /\ matchers = 0
    /\ cache = <<>>
    /\ callers = NoCallers
    /\ python \in {"3.10", "3.11"}
    /\ jobs \in [Jobs -> {Generated(project) : project \in Projects}]
    /\ proposals \in SavedTables
    /\ proven_cases_context = NoProvenCases
    /\ out = NoCall

\* progress 80: "Saving proposal..."
SetSaving(j) ==
    /\ jobs[j].pc = "status_80"
    /\ jobs' = [jobs EXCEPT ![j] = Processing(@, 80, "read_latest")]
    /\ JobsFrame

\* result = await db.execute(select(Proposal)...): the latest proposal of
\* the project gives new_version
ReadLatest(j, read) ==
    /\ jobs[j].pc = "read_latest"
    /\ jobs' = [jobs EXCEPT ![j] =
                   IF read
                   THEN [@ EXCEPT !.pc = "commit",
                                  !.new_version =
                                      NewVersion(RowsOfProject(proposals, jobs[j].project))]
                   ELSE Failed(@, "SQLAlchemyError")]
    /\ JobsFrame

\* create_proposal(...); db.add(proposal); await db.commit(); await
\* db.refresh(proposal)
Commit(j, done) ==
    LET Added(id) ==
            /\ proposals' = Append(proposals,
                                   ProposalRow(id, jobs[j].project, jobs[j].new_version))
            /\ jobs' = [jobs EXCEPT ![j] =
                           IF done = "refreshed"
                           THEN [@ EXCEPT !.pc = "status_100", !.proposal = id]
                           ELSE Failed([@ EXCEPT !.proposal = id], "SQLAlchemyError")]
    IN  /\ jobs[j].pc = "commit"
        /\ IF done = "commit_error"
           THEN /\ jobs' = [jobs EXCEPT ![j] = Failed(@, "SQLAlchemyError")]
                /\ proposals' = proposals
           ELSE Added(Len(proposals) + 1)
        /\ UNCHANGED <<file, hashSeed, kb_v2, kb_v1, matchers, cache, callers, python,
                       proven_cases_context, out>>

\* status "completed", progress 100, result.proposalId = str(proposal.id)
SetCompleted(j) ==
    /\ jobs[j].pc = "status_100"
    /\ jobs' = [jobs EXCEPT ![j] =
                   [set_job_status(@, "completed", 100, @.proposal, "") EXCEPT
                       !.pc = "returned"]]
    /\ JobsFrame

NextSave ==
    \/ \E j \in Jobs : SetSaving(j)
    \/ \E j \in Jobs, read \in BOOLEAN : ReadLatest(j, read)
    \/ \E j \in Jobs, done \in {"refreshed", "commit_error", "refresh_error"} :
           Commit(j, done)
    \/ \E j \in Jobs : SetCompleted(j)

SpecSave == InitSave /\ [][NextSave]_vars

MaxToolCalls == 2

FoodServiceData == WaterData("commercial", "food_service", None, <<>>)

\* ctx.deps.water_data of the run of a project
ProjectWaterData(project) ==
    IF project = "p1" THEN HotelData
    ELSE IF project = "p2" THEN FoodServiceData
    ELSE MunicipalData

\* the knowledge base of the runs
ProvenCorpus == <<FoodProcessing, MunicipalSewage, HotelHospitality>>

\* v1 get_engineering_references on the knowledge base, for each project
ProvenTable ==
    [a \in {<<>>, ProvenCorpus} \X ProvenProjects |->
        References_v1(1, a[1], ProjectWaterData(a[2]), ClientMetadata(a[2]))]

\* variant: the dict of the matcher is returned and not kept
StoreProvenCases_Skip(context, context_key, cases, project) == context

\* _proven_cases_context[context_key] = cases; the entry also names the
\* project whose data the cases were computed from
StoreProvenCases(context, context_key, cases, project) ==
    [context EXCEPT ![context_key] =
        [kind |-> "dict", cases |-> cases, project |-> project]]

InitProven ==
    /\ file \in {[readable |-> FALSE, applications |-> <<>>],
                 [readable |-> TRUE, applications |-> ProvenCorpus]}
    /\ hashSeed \in {1}
    /\ kb_v2 = NotLoaded
    /\ kb_v1 = NotLoaded
    /\ matchers = 0
    /\ cache = <<>>
    /\ callers = NoCallers
    /\ python = "3.11"
    /\ jobs = NoJobs
    /\ proposals = <<>>
    /\ proven_cases_context = NoProvenCases
    /\ out = NoCall

\* generate_enhanced_proposal(water_data, client_metadata) starts the agent
\* run of a job with the data of its project
StartRun(j, project) ==
    /\ jobs[j].pc = "new"
    /\ jobs' = [jobs EXCEPT ![j].pc = "generate", ![j].project = project]
    /\ JobsFrame

\* the agent calls the tool get_proven_water_treatment_cases(ctx): the
\* stored dict when the key is in _proven_cases_context, else the dict of
\* v1 get_engineering_references(ctx), which is stored under the key
GetProvenWaterTreatmentCases(j) ==
    LET project == jobs[j].project
        context_key == ContextKey(ClientMetadata(project))
        Returned(entry, called) ==
            /\ jobs' = [jobs EXCEPT ![j].tool_calls = @ + 1,
                                    ![j].matcher_calls = @ + called,
                                    ![j].proven_cases = entry]
            /\ out' = [ToolCall("get_proven_water_treatment_cases",
                                <<j, project, context_key>>, "", entry.cases)
                          EXCEPT !.hit = (called = 0)]
        Matched(kb) ==
            /\ kb_v1' = kb
            /\ proven_cases_context' =
                   StoreProvenCases(proven_cases_context, context_key,
                                    ProvenTable[<<kb.applications, project>>], project)
            /\ Returned([kind |-> "dict",
                         cases |-> ProvenTable[<<kb.applications, project>>],
                         project |-> project], 1)
    IN  /\ jobs[j].pc = "generate"
        /\ jobs[j].tool_calls < MaxToolCalls
        /\ IF proven_cases_context[context_key] # NoEntry
           THEN /\ Returned(proven_cases_context[context_key], 0)
                /\ UNCHANGED <<kb_v1, proven_cases_context>>
           ELSE Matched(load_knowledge_base(kb_v1))
        /\ UNCHANGED <<file, hashSeed, kb_v2, matchers, cache, callers, python, proposals>>

\* the agent run returns its output; _log_deviation_analysis reads the
\* entry of the key and leaves it in _proven_cases_context
FinishRun(j) ==
    /\ jobs[j].pc = "generate"
    /\ jobs' = [jobs EXCEPT ![j].pc = "returned",
                            ![j].attempts = <<[outcome |-> "output", raised |-> ""]>>]
    /\ JobsFrame

NextProven ==
    \/ \E j \in Jobs, project \in ProvenProjects : StartRun(j, project)
    \/ \E j \in Jobs : GetProvenWaterTreatmentCases(j)
    \/ \E j \in Jobs : FinishRun(j)

SpecProven == InitProven /\ [][NextProven]_vars

\* the calls of get_engineering_references made under a context key
MatcherCalls(context_key) ==
    LET Sum(a, b) == a + b
        Of(j) == IF /\ jobs[j].project # ""
                    /\ ContextKey(ClientMetadata(jobs[j].project)) = context_key
                 THEN jobs[j].matcher_calls ELSE 0
    IN  Sum(Of("job_a"), Of("job_b"))

C27_ResultsScopedToRun ==
    \A j \in Jobs :
        jobs[j].proven_cases # NoEntry =>
            jobs[j].proven_cases.project = jobs[j].project

\* the last call is a v2 get_engineering_references that returned its dict
IsReferences_v2 ==
    out.op = "get_engineering_references_v2" /\ out.raised = ""

\* C25: two successive calls of the v2 get_engineering_references with the
\* same sector, subsector, contaminant set and flow score the corpus only
\* once: the find_best_matches of the second call is answered from the
\* memoization cache.
C25_SecondCallAnsweredFromCache ==
    [][ ( /\ IsReferences_v2
          /\ IsReferences_v2'
          /\ out'.args = out.args
          /\ matchers' = matchers + 1 )
        => out'.hit ]_vars

\* C26: in the flow pass of two_pass_filter the sector-relevant candidates
\* (keyword score >= 5 on subsector and sector keywords) are filtered more
\* leniently than the others: there are user flows and case flow ranges for
\* which a sector-relevant candidate is kept as compatible although
\* is_flow_compatible rejects it, namely when case_min <= user_flow <=
\* 5 x case_max, while a candidate that is not sector-relevant is excluded
\* with the same range.
C26_SectorRelevantKeptMoreLeniently ==
    out.op = "two_pass_filter: PASS 2" =>
        \E a \in FlowInputs :
            /\ a[1] # NoFlow /\ a[1] # 0
            /\ KeptHighSector(a[1], [typical_flow_range |-> a[2]])
            /\ ~is_flow_compatible(a[1], a[2])

\* what holds of PASS 2: the decision on a sector-relevant candidate is the
\* decision on any other candidate
C26_SameDecisionForAllCandidates ==
    out.op = "two_pass_filter: PASS 2" => out.result.high_sector = out.result.low_sector

\* a sector-relevant candidate excluded for its flow, and one inside the
\* 5 x case_max band
C26_Excluded ==
    /\ out.op = "two_pass_filter: PASS 2"
    /\ ~out.result.high_sector
    /\ parse_flow_range(out.args[2]) # NoRange

C26_InBand ==
    /\ out.op = "two_pass_filter: PASS 2"
    /\ parse_flow_range(out.args[2]) # NoRange
    /\ out.args[1] > parse_flow_range(out.args[2])[2]
    /\ out.args[1] <= 5 * parse_flow_range(out.args[2])[2]

====
